---- MODULE Spec2Model ----
\* A model of the NochGPT WhatsApp backend (server/main.py, server/cache.py):
\* the POST /webhook receiver with its de-dup map and sliding-window rate
\* limiter, the background message handler with the hand-off flow, the ticket
\* sink and the response cache.
EXTENDS Integers, Sequences, FiniteSets, TLC

\* ---------------------------------------------------------------- bounds
\* Number of POST /webhook requests in one behaviour of the front door.
MaxReq == 3
\* Number of POST /webhook requests in one behaviour of the handlers.
MaxHandled == 3
\* Number of push_ticket calls in one behaviour of the ticket sink.
MaxPush == 3
\* Number of save_to_cache calls in one behaviour of the cache.
MaxSaves == 2
\* Number of POST /webhook requests in one behaviour of the media pipeline.
MaxMedia == 2
\* Number of POST /webhook requests that follow the trigger of a hand-off.
MaxPending == 2
\* Number of POST /chat requests in one behaviour.
MaxChats == 2
\* Number of words of a text given to detect_lang.
MaxWords == 2
\* Length of a question.
MaxLen == 3
\* The value a deployment with a small media limit gives the environment
\* variable MAX_MEDIA_BYTES (main.py:259), in bytes.
LowMaxMedia == 3
\* Number of clock advances in one behaviour of POST /chat.
MaxChatTicks == 1
\* Number of clock advances in one behaviour.
MaxTicks == 2
\* The value a deployment that throttles early gives the environment variable
\* MAX_MSGS_PER_WINDOW (main.py:381).
LowMaxMsgs == 2
\* The value a deployment that lets one message per window through gives it.
StrictMaxMsgs == 1
\* Number of words by which the longest text given to simple_chunk exceeds
\* max_len.
MaxOver == 3

\* ------------------------------------------------------ program constants
\* main.py:378  SEEN_TTL = 60 * 10
SEEN_TTL == 600
\* main.py:380
WINDOW == 60
\* main.py:381  the default of int(os.getenv("MAX_MSGS_PER_WINDOW", "15"))
DefaultMaxMsgs == 15
\* main.py:407
MAX_TICKETS == 200
\* cache.py:5
CACHE_TTL == 3600
\* main.py:71
MAX_HIST == 200
\* main.py:252  the default of os.getenv("META_VERIFY_TOKEN", ...)
META_VERIFY_TOKEN == "nochgpt-verify-123"

VARIABLES
    now,            \* time.time(), in seconds
    ticks,          \* number of clock advances so far
    nreq,           \* number of POST /webhook requests so far
    ADMIN_NUMBER,   \* main.py:256, configuration read at start-up
    MAX_MSGS_PER_WINDOW,  \* main.py:381, configuration read at start-up
    SEEN_MSG,       \* main.py:377  message_id -> ts
    USER_HITS,      \* main.py:382  phone -> deque of ts
    PENDING_HUMAN,  \* main.py:405  keys of the dict (its values are never read)
    TICKETS,        \* main.py:406
    HANDOFF_FILE,   \* content of /tmp/handoff.json
    tasks,          \* background tasks in flight: request number -> task
    last,           \* history: the request or handler that completed last
    queuedAt,       \* history: message id -> times it was handed to the handler
    recorded,       \* history: message id -> when is_duplicate last recorded it
    accepted,       \* history: phone -> times allow_rate accepted a message
    cycle,          \* history: phone -> number of entries into waiting_handoff
    pushed,         \* history: the last push_ticket call made on its own
    cache,          \* cache.py:8  _cache: key -> (exp, val)
    saved,          \* history: the last save_to_cache call made on its own
    got,            \* history: the last get_from_cache call made on its own
    asked,          \* the two (question, language) pairs a key comparison is about
    MAX_MEDIA_BYTES,  \* main.py:259, configuration read at start-up
    disk,           \* files under MEDIA_DIR: path -> [ino, size]
    trace,          \* history: the provider calls of the handling that completed last
    resp,           \* history: the last answer of GET /webhook or POST /chat
    HIST,           \* main.py:70   the questions answered by POST /chat
    chats,          \* the POST /chat requests so far; those under way with their locals
    arg,            \* the arguments detect_lang or simple_chunk is applied to
    ret,            \* what detect_lang returned for arg
    chunker         \* the call simple_chunk(arg): its locals and its result

\* The response cache and its history.
cacheVars == <<cache, saved, got, asked>>

\* The media directory with its size limit.
mediaVars == <<MAX_MEDIA_BYTES, disk>>

\* The answers of the endpoints other than POST /webhook, and language
\* detection.
apiVars == <<resp, HIST, chats, arg, ret, chunker>>

vars == <<now, ticks, nreq, ADMIN_NUMBER, MAX_MSGS_PER_WINDOW, SEEN_MSG, USER_HITS,
          PENDING_HUMAN, TICKETS, HANDOFF_FILE, tasks, last, queuedAt, recorded,
          accepted, cycle, pushed, cache, saved, got, asked, MAX_MEDIA_BYTES, disk, trace,
          resp, HIST, chats, arg, ret, chunker>>

\* ------------------------------------------------------------- helpers
Restrict(f, S) == [x \in S |-> f[x]]

Senders == {"s1", "s2"}
MsgIds == {"", "m1", "m2", "m3", "m4", "m5", "m6", "m7", "m8", "m9", "m10"}


\* ------------------------------------------------------------- messages
\* A WhatsApp message as the handler reads it.  mtype is msg["type"]; body is
\* the text body (or the button text); bid is the button payload or the
\* interactive reply id; sub says which interactive reply object is present;
\* media says whether the media object carries an id; wf is FALSE when the
\* "text" member is not a JSON object (msg["text"] = "hola"), so that
\* (msg.get("text") or {}).get raises AttributeError at main.py:623.
Msg(id, from, mtype, body, bid, sub, media, wf) ==
    [id |-> id, from |-> from, mtype |-> mtype, body |-> body, bid |-> bid,
     sub |-> sub, media |-> media, wf |-> wf]

NoMsg == Msg("", "", "none", "", "", "none", FALSE, TRUE)

\* _normalize without the lower-casing.
_normalize_keeps_case(s) == s

\* main.py:214-217  _normalize: strip, lower-case, drop Spanish accents, on
\* the text bodies of the model (already stripped by sanitize_text,
\* main.py:77-82).
_normalize(s) ==
    CASE s = "Humano" -> "humano"
      [] s = "Hola" -> "hola"
      [] s = "Nombre: Ana" -> "nombre: ana"
      [] OTHER -> s

\* main.py:219-246  reply_for_button.  "None" stands for Python's None and
\* "TIEMPOS" for the turnaround-times text.
reply_for_button(text, btn_id) ==
    LET tid == btn_id
        tnorm == _normalize(text)
    IN  CASE tid = "btn_cotizar" -> "None"
          [] tid = "btn_tiempos" -> "TIEMPOS"
          [] tid = "btn_humano" -> "__HUMANO__"
          [] tnorm \in {"precios", "precio", "cotizar", "cotizacion"} -> "QUIERO_LIST"
          [] tnorm \in {"planes", "plan", "tiempos", "entregas"} -> "TIEMPOS"
          [] tnorm \in {"hablar con humano", "humano", "asesor", "persona"} -> "__HUMANO__"
          [] tnorm \in {"hola", "menu", "ayuda", "start", "inicio"} -> ""
          [] OTHER -> "None"

\* One outbound call of wa_send_text / wa_send_list / wa_send_interactive_buttons.
Send(to, kind) == [to |-> to, kind |-> kind]

\* ------------------------------------------------------ language detection
\* A text is a sequence of words separated by blanks.  A word is named in
\* ASCII and described by what the regular expressions of main.py:84-118 find
\* in it: the script range its letters fall in, the keyword alternatives that
\* match it once lower-cased (a word is delimited by \b on both sides), and the
\* accented letters and inverted punctuation it holds once lower-cased.
Word(script, kw, marks) == [script |-> script, kw |-> kw, marks |-> marks]

WordInfo(w) ==
    CASE w = "marhaban(ar)" -> Word("ar", {}, {})
      [] w = "namaste(hi)"  -> Word("hi", {}, {})
      [] w = "nihao(zh)"    -> Word("zh", {}, {})
      [] w = "annyeong(ko)" -> Word("ko", {}, {})
      [] w = "privet(ru)"   -> Word("ru", {}, {})
      [] w = "precio"       -> Word("latin", {"precio"}, {})
      [] w = "price"        -> Word("latin", {"price"}, {})
      [] w = "PRICE"        -> Word("latin", {"price"}, {})
      [] w = "humano"       -> Word("latin", {"humano"}, {})
      [] w = "prix"         -> Word("latin", {"prix"}, {})
      [] w = "preco+cedilla"       -> Word("latin", {"preco+cedilla"}, {"c_cedilla"})
      [] w = "delais+acute"      -> Word("latin", {"delais+acute"}, {"e_acute"})
      [] w = "nino+tilde"        -> Word("latin", {}, {"n_tilde"})
      [] w = "acao+cedilla+tilde"       -> Word("latin", {}, {"c_cedilla", "a_tilde"})
      [] w = "ou+grave"          -> Word("latin", {}, {"u_grave"})
      [] OTHER              -> Word("latin", {}, {})

\* re.search of a script range, of a keyword alternation and of a character
\* class in a text.
HasScript(text, script) == \E i \in DOMAIN text : WordInfo(text[i]).script = script
HasKeyword(text, alts) == \E i \in DOMAIN text : WordInfo(text[i]).kw \cap alts # {}
HasMark(text, class) == \E i \in DOMAIN text : WordInfo(text[i]).marks \cap class # {}

\* detect_lang_from_script testing the Devanagari range before the Arabic one.
detect_lang_from_script_hi_first(text) ==
    IF HasScript(text, "hi") THEN "hi"
    ELSE IF HasScript(text, "ar") THEN "ar"
    ELSE IF HasScript(text, "zh") THEN "zh"
    ELSE IF HasScript(text, "ko") THEN "ko"
    ELSE IF HasScript(text, "ru") THEN "ru"
    ELSE "None"

\* main.py:84-91  detect_lang_from_script.
detect_lang_from_script(text) ==
    IF HasScript(text, "ar") THEN "ar"
    ELSE IF HasScript(text, "hi") THEN "hi"
    ELSE IF HasScript(text, "zh") THEN "zh"
    ELSE IF HasScript(text, "ko") THEN "ko"
    ELSE IF HasScript(text, "ru") THEN "ru"
    ELSE "None"

\* main.py:93-99  detect_lang_keywords, with the alternatives of each pattern
\* that the words of the model can match.
detect_lang_keywords(text) ==
    IF HasKeyword(text, {"precio", "humano"}) THEN "es"
    ELSE IF HasKeyword(text, {"price"}) THEN "en"
    ELSE IF HasKeyword(text, {"preco+cedilla", "humano"}) THEN "pt"
    ELSE IF HasKeyword(text, {"prix", "delais+acute"}) THEN "fr"
    ELSE "None"

\* main.py:61-64  PHONE_CC_LANG; a phone number is a sequence of digits.
PHONE_CC_LANG ==
    (<<"5", "2">> :> "es") @@ (<<"3", "4">> :> "es") @@ (<<"5", "7">> :> "es")
    @@ (<<"5", "4">> :> "es") @@ (<<"1">> :> "en") @@ (<<"4", "4">> :> "en")
    @@ (<<"6", "1">> :> "en") @@ (<<"3", "5", "1">> :> "pt") @@ (<<"5", "5">> :> "pt")
    @@ (<<"3", "3">> :> "fr") @@ (<<"4", "9">> :> "en") @@ (<<"3", "9">> :> "en")
    @@ (<<"7">> :> "ru") @@ (<<"9", "1">> :> "hi") @@ (<<"8", "6">> :> "zh")
    @@ (<<"8", "2">> :> "ko") @@ (<<"9", "7", "1">> :> "ar") @@ (<<"2", "0">> :> "ar")
    @@ (<<"9", "6", "6">> :> "ar")

\* str.startswith
StartsWith(num, cc) == Len(cc) <= Len(num) /\ SubSeq(num, 1, Len(cc)) = cc

\* main.py:109-113  the language of the longest country code that starts the
\* number; no phone number (None or "") is the empty sequence.
detect_lang_phone(num) ==
    LET hits == {cc \in DOMAIN PHONE_CC_LANG : StartsWith(num, cc)}
    IN  IF hits = {} THEN "None"
        ELSE PHONE_CC_LANG[CHOOSE cc \in hits : \A o \in hits : Len(o) <= Len(cc)]

\* main.py:115-118  the accent heuristics for Latin-script languages.
detect_lang_latin(text) ==
    IF HasMark(text, {"a_acute", "e_acute", "i_acute", "o_acute", "u_acute", "n_tilde", "inverted_question", "inverted_exclamation"}) THEN "es"
    ELSE IF HasMark(text, {"a_tilde", "o_tilde", "a_acute", "e_acute", "i_acute", "o_acute", "u_acute", "c_cedilla"}) THEN "pt"
    ELSE IF HasMark(text, {"a_grave", "a_circumflex", "c_cedilla", "e_acute", "e_grave", "e_circumflex", "e_diaeresis", "i_circumflex", "i_diaeresis",
                           "o_circumflex", "u_grave", "u_circumflex", "u_diaeresis", "y_diaeresis", "oe_ligature"}) THEN "fr"
    ELSE "None"

\* main.py:101-119  detect_lang.
detect_lang(text, phone_e164) ==
    IF detect_lang_from_script(text) # "None" THEN detect_lang_from_script(text)
    ELSE IF detect_lang_keywords(text) # "None" THEN detect_lang_keywords(text)
    ELSE IF detect_lang_phone(phone_e164) # "None" THEN detect_lang_phone(phone_e164)
    ELSE IF detect_lang_latin(text) # "None" THEN detect_lang_latin(text)
    ELSE "en"

\* ------------------------------------------------------- de-dup, rate limit
\* PruneSeen with the age test written >= instead of >.
PruneSeenAtTtl(seen, t) ==
    Restrict(seen, {k \in DOMAIN seen : ~(t - seen[k] >= SEEN_TTL)})

\* A pruning loop that drops nothing.
PruneSeenNever(seen, t) == seen

\* main.py:386-387  the pruning loop of is_duplicate.
PruneSeen(seen, t) ==
    Restrict(seen, {k \in DOMAIN seen : ~(t - seen[k] > SEEN_TTL)})

\* main.py:384-391  is_duplicate: the value returned.
is_duplicate(seen, msg_id, t) ==
    /\ msg_id # ""
    /\ msg_id \in DOMAIN PruneSeen(seen, t)

\* An is_duplicate that prunes and records nothing.
SeenAfterUnrecorded(seen, msg_id, t) == PruneSeen(seen, t)

\* main.py:384-391  is_duplicate: SEEN_MSG after the call.
SeenAfter(seen, msg_id, t) ==
    LET p == PruneSeen(seen, t)
    IN  IF msg_id = "" \/ msg_id \in DOMAIN p THEN p ELSE p @@ (msg_id :> t)

\* PruneHits with the age test written >= instead of >.
RECURSIVE PruneHitsAtWindow(_, _)
PruneHitsAtWindow(dq, t) ==
    IF dq # <<>> /\ (t - Head(dq)) >= WINDOW THEN PruneHitsAtWindow(Tail(dq), t) ELSE dq

\* main.py:396  while dq and (now - dq[0]) > WINDOW: dq.popleft()
RECURSIVE PruneHits(_, _)
PruneHits(dq, t) ==
    IF dq # <<>> /\ (t - Head(dq)) > WINDOW THEN PruneHits(Tail(dq), t) ELSE dq

\* main.py:393-398  allow_rate: the value returned.
allow_rate(hits, phone, t) ==
    ~(Len(PruneHits(hits[phone], t)) >= MAX_MSGS_PER_WINDOW)

\* main.py:393-398  allow_rate: USER_HITS after the call.
HitsAfter(hits, phone, t) ==
    LET dq == PruneHits(hits[phone], t)
    IN  [hits EXCEPT ![phone] =
            IF Len(dq) >= MAX_MSGS_PER_WINDOW THEN dq ELSE Append(dq, t)]

\* ------------------------------------------------------------ ticket sink
\* /tmp/handoff.json: absent, or present with content that json.load either
\* rejects (valid = FALSE) or reads as the array arr.
File(exists, valid, arr) == [exists |-> exists, valid |-> valid, arr |-> arr]

\* main.py:437-438  TICKETS.append(ticket) and the MAX_TICKETS cap.
TicketsAfter(T, ticket) ==
    LET a == Append(T, ticket)
    IN  IF Len(a) > MAX_TICKETS
        THEN SubSeq(a, Len(a) - MAX_TICKETS + 1, Len(a))
        ELSE a

\* main.py:441-443  whether the read half of push_ticket completes; json.load
\* raises on corrupt content and the except at main.py:446 ends the call.
ReadOk(f) == ~f.exists \/ f.valid

\* main.py:441-443  arr after the read half.
ReadArr(f) == IF f.exists THEN f.arr ELSE <<>>

\* A write half that forgets the new record.
WriteArrKeepsOld(arr, ticket) == File(TRUE, TRUE, arr)

\* main.py:444-445  arr.append(ticket); json.dump(arr, f): the file afterwards.
WriteArr(arr, ticket) == File(TRUE, TRUE, Append(arr, ticket))

\* main.py:440-447  the persistence half of push_ticket run without
\* interruption: the file afterwards.
FileAfterPush(f, ticket) ==
    IF ReadOk(f) THEN WriteArr(ReadArr(f), ticket) ELSE f

\* ------------------------------------------------------------- history
\* What the request or handler that completed last did: its message, answer
\* (status) and outbound sends, the number of push_ticket
\* calls, whether its sender was pending when it was dispatched, and whether
\* an exception reached the top-level except.
Event(op, kind, msg, status, sends, tickets, pend, raised) ==
    [op |-> op, kind |-> kind, msg |-> msg, status |-> status,
     sends |-> sends, tickets |-> tickets, pend |-> pend, raised |-> raised]

NoTicket == [ts |-> 0, from |-> "", mensaje |-> "", cyc |-> 0]

\* A background task added by background.add_task (main.py:603).
\* path, ino and total are those of wa_download_media (main.py:361-366) once
\* the task downloads a media file.
Task(msg) ==
    [msg |-> msg, pc |-> "queued", arr |-> <<>>, ticket |-> NoTicket,
     path |-> <<>>, ino |-> 0, total |-> 0]

\* What one handling did besides sending: the speech-to-text attempts in
\* order, each with its model and result, the results of the vision and the
\* completion call ("none" when the call is not made), the temporary file it
\* downloaded to (<<path, ino>>, or <<>>) and the bytes it received for it.
Calls(stt, vision, completion, file, received) ==
    [stt |-> stt, vision |-> vision, completion |-> completion, file |-> file,
     received |-> received]

NoCalls == Calls(<<>>, "none", "none", <<>>, 0)

\* History of the de-dup map: when is_duplicate recorded an id (main.py:390)
\* and how the request that carried it was answered.
NoRecord == [t |-> -1, status |-> "none"]

\* main.py:389-390  is_duplicate returned False for msg_id at time t: the id
\* is recorded unless it is empty (main.py:388).
RecordedAfter(rec, msg_id, t, status) ==
    IF msg_id = "" THEN rec ELSE [rec EXCEPT ![msg_id] = [t |-> t, status |-> status]]

\* ---------------------------------------------------------- POST /webhook
Payload(kind, msg) == [kind |-> kind, msg |-> msg]

\* HasMessages without the emptiness test, as if the handler read
\* (value.get("messages") or [{}])[0] the way it reads entry and changes.
HasMessagesUnchecked(p) == TRUE

\* main.py:594-595  msgs = value.get("messages") or []; if msgs:
HasMessages(p) == p.kind = "message"

\* main.py:581-611  webhook_handler.  The coroutine never awaits between
\* reading the payload and returning, so the event loop runs it atomically.
webhook_handler(p) ==
    LET msg == p.msg
        n == nreq + 1
        seen == SeenAfter(SEEN_MSG, msg.id, now)
        Answer(status, sends) ==
            last' = Event("webhook", p.kind, msg, status, sends, 0, FALSE,
                          status = "error")
    IN  /\ nreq' = n
        /\ UNCHANGED <<now, ticks, ADMIN_NUMBER, MAX_MSGS_PER_WINDOW, PENDING_HUMAN,
                       TICKETS, HANDOFF_FILE, cycle, pushed>>
        /\ UNCHANGED cacheVars
        /\ UNCHANGED <<mediaVars, apiVars, trace>>
        /\ IF p.kind = "invalid_json"
           THEN \* main.py:583-586
                /\ Answer("invalid_json", <<>>)
                /\ UNCHANGED <<SEEN_MSG, USER_HITS, tasks, queuedAt, recorded, accepted>>
           ELSE IF p.kind = "bad_shape"
           THEN \* main.py:590-597 raise, caught at main.py:609-611
                /\ Answer("error", <<>>)
                /\ UNCHANGED <<SEEN_MSG, USER_HITS, tasks, queuedAt, recorded, accepted>>
           ELSE IF ~HasMessages(p)
           THEN \* main.py:606-607
                /\ Answer(IF p.kind = "statuses" THEN "status_ok" ELSE "no_message",
                          <<>>)
                /\ UNCHANGED <<SEEN_MSG, USER_HITS, tasks, queuedAt, recorded, accepted>>
           ELSE IF is_duplicate(SEEN_MSG, msg.id, now)
           THEN \* main.py:599
                /\ SEEN_MSG' = seen
                /\ Answer("dup_ok", <<>>)
                /\ UNCHANGED <<USER_HITS, tasks, queuedAt, recorded, accepted>>
           ELSE IF ~allow_rate(USER_HITS, msg.from, now)
           THEN \* main.py:600-602
                /\ SEEN_MSG' = seen
                /\ USER_HITS' = HitsAfter(USER_HITS, msg.from, now)
                /\ recorded' = RecordedAfter(recorded, msg.id, now, "rate_limited")
                /\ Answer("rate_limited", <<Send(msg.from, "rate_limited")>>)
                /\ UNCHANGED <<tasks, queuedAt, accepted>>
           ELSE \* main.py:603-604
                /\ SEEN_MSG' = seen
                /\ USER_HITS' = HitsAfter(USER_HITS, msg.from, now)
                /\ tasks' = tasks @@ (n :> Task(msg))
                /\ queuedAt' = [queuedAt EXCEPT ![msg.id] = Append(@, now)]
                /\ recorded' = RecordedAfter(recorded, msg.id, now, "queued")
                /\ accepted' = [accepted EXCEPT ![msg.from] = Append(@, now)]
                /\ Answer("queued", <<>>)

\* ------------------------------------------------- handle_incoming_message
\* main.py:618-627  user_text and button_id.
user_text(m) == IF m.mtype \in {"text", "button"} THEN m.body ELSE ""

button_id(m) == IF m.mtype = "button" THEN m.bid ELSE ""

\* HandoffDue without the test of the message type.
HandoffDueAnyType(m, pend) == pend

\* HandoffDue tested after the fixed replies of reply_for_button, as if
\* main.py:654-668 stood below main.py:671-679.
HandoffDueAfterFixed(m, pend) ==
    pend /\ m.mtype = "text" /\ reply_for_button(user_text(m), "") = "None"

\* main.py:654  if from_number in PENDING_HUMAN and mtype == "text":
HandoffDue(m, pend) == pend /\ m.mtype = "text"

\* main.py:615-747  the branch handle_incoming_message takes for message m
\* when pend says whether m.from is in PENDING_HUMAN at main.py:654.
Branch(m, pend) ==
    LET fixed == reply_for_button(user_text(m), button_id(m))
    IN  IF m.mtype = "text" /\ ~m.wf THEN "raise"
        ELSE IF m.mtype = "interactive" /\ m.sub = "button_reply"
                /\ m.bid = "btn_cotizar" THEN "list"
        ELSE IF m.mtype = "interactive" /\ m.sub = "button_reply"
                /\ m.bid = "btn_tiempos" THEN "tiempos"
        ELSE IF m.mtype = "interactive" /\ m.sub = "button_reply"
                /\ m.bid = "btn_humano" THEN "human"
        ELSE IF m.mtype = "interactive" /\ m.sub = "list_reply" THEN "list_reply"
        ELSE IF HandoffDue(m, pend) THEN "handoff"
        ELSE IF user_text(m) # "" \/ button_id(m) # ""
        THEN CASE fixed = "" -> "menu"
               [] fixed = "QUIERO_LIST" -> "list"
               [] fixed = "__HUMANO__" -> "human"
               [] fixed = "TIEMPOS" -> "tiempos"
               [] OTHER -> "llm"
        ELSE IF m.mtype \in {"image", "document", "audio"}
        THEN IF m.media THEN m.mtype ELSE "nomedia"
        ELSE "fallback"

\* What the provider calls of one handling do: the completion, vision or
\* transcription call succeeds or fails.
Outcomes == {"ok", "fail"}

\* main.py:123-136  call_openai: the content returned, or HTTPException(500)
\* raised when the provider call fails.
call_openai(r, content) ==
    IF r = "ok" THEN [raised |-> FALSE, val |-> content]
    ELSE [raised |-> TRUE, val |-> "Error con el modelo"]

\* main.py:629-747  the outbound sends of a branch other than the hand-off
\* completion, given the outcome r of its provider calls.
BranchSends(m, br, r) ==
    CASE br = "list" -> <<Send(m.from, "list")>>
      [] br = "tiempos" -> <<Send(m.from, "tiempos")>>
      [] br = "human" -> <<Send(m.from, "human_prompt")>>
      [] br = "list_reply" -> <<Send(m.from, "list_reply")>>
      [] br = "menu" -> <<Send(m.from, "menu")>>
      [] br = "llm" -> <<Send(m.from, IF r = "ok" THEN "answer" ELSE "apology")>>
      [] br = "fallback" -> <<Send(m.from, "fallback")>>
      [] OTHER -> <<>>

\* main.py:656-661  the ticket built from the hand-off details; cyc (history)
\* is the sender's hand-off cycle at main.py:654.
NewTicket(m, t, c) == [ts |-> t, from |-> m.from, mensaje |-> m.body, cyc |-> c]

\* main.py:615-654 and every branch but the hand-off completion and the media
\* branches to its return; for the hand-off completion, main.py:654-662 up to
\* the read half of push_ticket (main.py:437-443); for a media message with
\* an id, up to the call of wa_get_media_url (main.py:692, 707, 728).
Dispatch(n) ==
    /\ n \in DOMAIN tasks
    /\ tasks[n].pc = "queued"
    /\ \E r \in Outcomes :
        LET m == tasks[n].msg
            pend == m.from \in PENDING_HUMAN
            br == Branch(m, pend)
            ticket == NewTicket(m, now, cycle[m.from])
        IN  IF br = "handoff"
            THEN /\ TICKETS' = TicketsAfter(TICKETS, ticket)
                 /\ tasks' = [tasks EXCEPT
                        ![n].pc = IF ReadOk(HANDOFF_FILE) THEN "write" ELSE "confirm",
                        ![n].arr = ReadArr(HANDOFF_FILE),
                        ![n].ticket = ticket]
                 /\ UNCHANGED <<PENDING_HUMAN, cycle, last, trace>>
            ELSE IF br \in {"image", "document", "audio"}
            THEN /\ tasks' = [tasks EXCEPT ![n].pc = "resolve"]
                 /\ UNCHANGED <<PENDING_HUMAN, cycle, last, trace, TICKETS>>
            ELSE /\ PENDING_HUMAN' =
                        IF br = "human" THEN PENDING_HUMAN \cup {m.from}
                        ELSE PENDING_HUMAN
                 /\ cycle' = IF br = "human" /\ ~pend
                             THEN [cycle EXCEPT ![m.from] = @ + 1]
                             ELSE cycle
                 /\ tasks' = Restrict(tasks, DOMAIN tasks \ {n})
                 /\ last' = Event("handler", "message", m, br,
                                  BranchSends(m, br, r), 0, pend, br = "raise")
                 /\ trace' = Calls(<<>>, "none", IF br = "llm" THEN r ELSE "none", <<>>, 0)
                 /\ UNCHANGED TICKETS
    /\ UNCHANGED <<now, ticks, nreq, ADMIN_NUMBER, MAX_MSGS_PER_WINDOW, SEEN_MSG,
                   USER_HITS, HANDOFF_FILE, queuedAt, recorded, accepted, pushed>>
    /\ UNCHANGED cacheVars
    /\ UNCHANGED <<mediaVars, apiVars>>

\* main.py:444-445  the write half of push_ticket.
WriteFile(n) ==
    /\ n \in DOMAIN tasks
    /\ tasks[n].pc = "write"
    /\ HANDOFF_FILE' = WriteArr(tasks[n].arr, tasks[n].ticket)
    /\ tasks' = [tasks EXCEPT ![n].pc = "confirm"]
    /\ UNCHANGED <<now, ticks, nreq, ADMIN_NUMBER, MAX_MSGS_PER_WINDOW, SEEN_MSG,
                   USER_HITS, PENDING_HUMAN, TICKETS, last, queuedAt, recorded, accepted,
                   cycle, pushed>>
    /\ UNCHANGED cacheVars
    /\ UNCHANGED <<mediaVars, apiVars, trace>>

\* main.py:466-476  notify_admin: the sends it makes.
notify_admin(admin) ==
    IF admin = "" THEN <<>> ELSE <<Send(admin, "admin_notify")>>

\* main.py:663-668  sheet webhook, admin notice, confirmation, and the
\* sender leaves PENDING_HUMAN.
Confirm(n) ==
    /\ n \in DOMAIN tasks
    /\ tasks[n].pc = "confirm"
    /\ LET m == tasks[n].msg
       IN  /\ PENDING_HUMAN' = PENDING_HUMAN \ {m.from}
           /\ last' = Event("handler", "message", m, "handoff",
                            notify_admin(ADMIN_NUMBER) \o <<Send(m.from, "ticket_ok")>>,
                            1, TRUE, FALSE)
    /\ trace' = NoCalls
    /\ tasks' = Restrict(tasks, DOMAIN tasks \ {n})
    /\ UNCHANGED <<now, ticks, nreq, ADMIN_NUMBER, MAX_MSGS_PER_WINDOW, SEEN_MSG,
                   USER_HITS, TICKETS, HANDOFF_FILE, queuedAt, recorded, accepted, cycle,
                   pushed>>
    /\ UNCHANGED cacheVars
    /\ UNCHANGED <<mediaVars, apiVars>>

\* ---------------------------------------------------------- media pipeline
MediaTypes == {"image", "document", "audio"}

\* The handling of task n returns after sending one text of the given kind.
MediaDone(n, status, kind, calls) ==
    LET m == tasks[n].msg
    IN  /\ tasks' = Restrict(tasks, DOMAIN tasks \ {n})
        /\ last' = Event("handler", "message", m, status, <<Send(m.from, kind)>>, 0,
                         m.from \in PENDING_HUMAN, FALSE)
        /\ trace' = calls

\* main.py:697-698, 719-720, 742-743  the except clause of a media branch.
FailureNotice(mtype) ==
    CASE mtype = "image" -> "image_failed"
      [] mtype = "document" -> "document_failed"
      [] OTHER -> "audio_failed"

\* The temporary file of task n, if it has one.
TempFile(n) == IF tasks[n].path = <<>> THEN <<>> ELSE <<tasks[n].path, tasks[n].ino>>

\* An exception reaches the except clause of the media branch of task n.
MediaFailed(n, status, received) ==
    MediaDone(n, status, FailureNotice(tasks[n].msg.mtype),
              Calls(<<>>, "none", "none", TempFile(n), received))

\* main.py:348-352  wa_get_media_url: the lookup answers, or raises.
wa_get_media_url(n) ==
    /\ n \in DOMAIN tasks
    /\ tasks[n].pc = "resolve"
    /\ \E r \in Outcomes :
        IF r = "ok"
        THEN /\ tasks' = [tasks EXCEPT ![n].pc = "request"]
             /\ UNCHANGED <<last, trace>>
        ELSE MediaFailed(n, "no_url", 0)
    /\ UNCHANGED <<now, ticks, nreq, ADMIN_NUMBER, MAX_MSGS_PER_WINDOW, SEEN_MSG,
                   USER_HITS, PENDING_HUMAN, TICKETS, HANDOFF_FILE, queuedAt, recorded,
                   accepted, cycle, pushed>>
    /\ UNCHANGED <<cacheVars, mediaVars, apiVars>>

\* main.py:360-361  the destination: the second of the download and the
\* extension of the content type, which follows the message type here.
DestPath(t, mtype) == <<t, mtype>>

\* main.py:363  open(path, "wb"): a new file, or the file already at path,
\* emptied.
DiskAfterOpen(d, path, n) ==
    IF path \in DOMAIN d
    THEN [d EXCEPT ![path].size = 0]
    ELSE d @@ (path :> [ino |-> n, size |-> 0])

\* main.py:355-363  wa_download_media up to the open of the destination; the
\* request fails or answers with an error status (raise_for_status), or the
\* destination is opened.
OpenDownload(n) ==
    /\ n \in DOMAIN tasks
    /\ tasks[n].pc = "request"
    /\ \E r \in Outcomes :
        IF r = "ok"
        THEN LET path == DestPath(now, tasks[n].msg.mtype)
                 d == DiskAfterOpen(disk, path, n)
             IN  /\ disk' = d
                 /\ tasks' = [tasks EXCEPT ![n].pc = "stream", ![n].path = path,
                                           ![n].ino = d[path].ino, ![n].total = 0]
                 /\ UNCHANGED <<last, trace>>
        ELSE /\ MediaFailed(n, "no_download", 0)
             /\ UNCHANGED disk
    /\ UNCHANGED <<now, ticks, nreq, ADMIN_NUMBER, MAX_MSGS_PER_WINDOW, SEEN_MSG,
                   USER_HITS, PENDING_HUMAN, TICKETS, HANDOFF_FILE, queuedAt, recorded,
                   accepted, cycle, pushed, MAX_MEDIA_BYTES>>
    /\ UNCHANGED <<cacheVars, apiVars>>

\* A size test that lets one byte too many through.
ExceedsLate(total) == total > MAX_MEDIA_BYTES + 1

\* main.py:367  if total > MAX_MEDIA_BYTES
Exceeds(total) == total > MAX_MEDIA_BYTES

\* main.py:372  f.write(chunk) by a task that has written off bytes through
\* its descriptor of file ino: the file grows to off + c when it is still the
\* file at path; a file unlinked meanwhile is written to without effect on
\* the directory.
DiskAfterWrite(d, path, ino, off, c) ==
    IF path \in DOMAIN d /\ d[path].ino = ino
    THEN [d EXCEPT ![path].size = IF @ > off + c THEN @ ELSE off + c]
    ELSE d

\* main.py:364-372  one chunk of c bytes arrives.
ReceiveChunk(n, c) ==
    /\ n \in DOMAIN tasks
    /\ tasks[n].pc = "stream"
    /\ LET t == tasks[n]
       IN  IF Exceeds(t.total + c)
           THEN \* main.py:368-371  os.remove(path), HTTPException(413)
                /\ disk' = Restrict(disk, DOMAIN disk \ {t.path})
                /\ MediaFailed(n, "too_large", t.total + c)
           ELSE /\ disk' = DiskAfterWrite(disk, t.path, t.ino, t.total, c)
                /\ tasks' = [tasks EXCEPT ![n].total = t.total + c]
                /\ UNCHANGED <<last, trace>>
    /\ UNCHANGED <<now, ticks, nreq, ADMIN_NUMBER, MAX_MSGS_PER_WINDOW, SEEN_MSG,
                   USER_HITS, PENDING_HUMAN, TICKETS, HANDOFF_FILE, queuedAt, recorded,
                   accepted, cycle, pushed, MAX_MEDIA_BYTES>>
    /\ UNCHANGED <<cacheVars, apiVars>>

\* main.py:364  iter_content raises: the connection broke.
StreamError(n) ==
    /\ n \in DOMAIN tasks
    /\ tasks[n].pc = "stream"
    /\ MediaFailed(n, "broken_stream", tasks[n].total)
    /\ UNCHANGED <<now, ticks, nreq, ADMIN_NUMBER, MAX_MSGS_PER_WINDOW, SEEN_MSG,
                   USER_HITS, PENDING_HUMAN, TICKETS, HANDOFF_FILE, queuedAt, recorded,
                   accepted, cycle, pushed>>
    /\ UNCHANGED <<cacheVars, mediaVars, apiVars>>

\* main.py:364, 373  the stream ends and wa_download_media returns.
EndOfStream(n) ==
    /\ n \in DOMAIN tasks
    /\ tasks[n].pc = "stream"
    /\ tasks' = [tasks EXCEPT ![n].pc = "process"]
    /\ UNCHANGED <<now, ticks, nreq, ADMIN_NUMBER, MAX_MSGS_PER_WINDOW, SEEN_MSG,
                   USER_HITS, PENDING_HUMAN, TICKETS, HANDOFF_FILE, last, queuedAt, recorded,
                   accepted, cycle, pushed, trace>>
    /\ UNCHANGED <<cacheVars, mediaVars, apiVars>>

\* What a speech-to-text call, or the PDF text extraction, yields.
Yields == {"text", "empty", "fail"}

\* A retry rule that also retries after an empty transcript.
NeedsRetryOnEmpty(result) == result # "text"

\* main.py:202-204  the secondary model is tried when the primary raised.
NeedsRetry(result) == result = "fail"

\* main.py:197-210  transcribe_audio_with_openai: the attempts made when the
\* primary model yields r1 and the secondary, if tried, r2.
transcribe_audio_with_openai(r1, r2) ==
    IF NeedsRetry(r1)
    THEN <<[model |-> "whisper-1", result |-> r1],
           [model |-> "gpt-4o-mini-transcribe", result |-> r2]>>
    ELSE <<[model |-> "whisper-1", result |-> r1]>>

\* main.py:732  if transcript:
HasTranscript(stt) == stt[Len(stt)].result = "text"

\* main.py:695-696  the image branch after the download.
ProcessImage(n, r) ==
    LET t == tasks[n]
    IN  IF t.path \notin DOMAIN disk
        THEN \* main.py:143  open(path) raises in _to_data_url
             MediaFailed(n, "no_file", t.total)
        ELSE MediaDone(n, "image", IF r = "ok" THEN "image_analysis"
                                   ELSE "image_unanalyzed",
                       Calls(<<>>, r, "none", TempFile(n), t.total))

\* main.py:710-718  the document branch after the download: pdf says whether
\* the content type or the file name is that of a PDF, x what
\* extract_pdf_text yields (nothing when the file cannot be read, blank text
\* for pages without text), r the outcome of the completion call.
ProcessDocument(n, pdf, x, r) ==
    LET t == tasks[n]
        raw == IF t.path \notin DOMAIN disk THEN "fail" ELSE x
    IN  IF ~pdf
        THEN MediaDone(n, "document", "document_not_pdf",
                       Calls(<<>>, "none", "none", TempFile(n), t.total))
        ELSE IF raw = "fail"
        THEN \* main.py:716
             MediaDone(n, "document", "pdf_unreadable",
                       Calls(<<>>, "none", "none", TempFile(n), t.total))
        ELSE IF raw = "empty"
        THEN \* main.py:188  summarize_document_with_openai returns ""
             MediaDone(n, "document", "summary_empty",
                       Calls(<<>>, "none", "none", TempFile(n), t.total))
        ELSE \* main.py:189-195, 714
             MediaDone(n, "document", IF call_openai(r, "summary").raised
                                      THEN "summary_empty" ELSE "summary",
                       Calls(<<>>, "none", r, TempFile(n), t.total))

\* main.py:731-741  the audio branch after the download.  An attempt also
\* fails when the file cannot be opened.
ProcessAudio(n, r1, r2, r) ==
    LET t == tasks[n]
        gone == t.path \notin DOMAIN disk
        stt == transcribe_audio_with_openai(IF gone THEN "fail" ELSE r1,
                                            IF gone THEN "fail" ELSE r2)
    IN  IF ~HasTranscript(stt)
        THEN MediaDone(n, "audio", "audio_untranscribed",
                       Calls(stt, "none", "none", TempFile(n), t.total))
        ELSE IF call_openai(r, "answer").raised
        THEN MediaDone(n, "no_answer", FailureNotice("audio"),
                       Calls(stt, "none", r, TempFile(n), t.total))
        ELSE MediaDone(n, "audio", "audio_reply",
                       Calls(stt, "none", r, TempFile(n), t.total))

\* main.py:695-698, 710-720, 731-743  a media branch from the return of
\* wa_download_media to the return of the handler.
Process(n) ==
    /\ n \in DOMAIN tasks
    /\ tasks[n].pc = "process"
    /\ CASE tasks[n].msg.mtype = "image" ->
                \E r \in Outcomes : ProcessImage(n, r)
          [] tasks[n].msg.mtype = "document" ->
                \E pdf \in BOOLEAN, x \in Yields, r \in Outcomes :
                    ProcessDocument(n, pdf, x, r)
          [] OTHER ->
                \E r1 \in Yields, r2 \in Yields, r \in Outcomes :
                    ProcessAudio(n, r1, r2, r)
    /\ UNCHANGED <<now, ticks, nreq, ADMIN_NUMBER, MAX_MSGS_PER_WINDOW, SEEN_MSG,
                   USER_HITS, PENDING_HUMAN, TICKETS, HANDOFF_FILE, queuedAt, recorded,
                   accepted, cycle, pushed>>
    /\ UNCHANGED <<cacheVars, mediaVars, apiVars>>

\* time.time() advances by d seconds.
Tick(d) ==
    /\ ticks' = ticks + 1
    /\ now' = now + d
    /\ UNCHANGED <<nreq, ADMIN_NUMBER, MAX_MSGS_PER_WINDOW, SEEN_MSG, USER_HITS,
                   PENDING_HUMAN, TICKETS, HANDOFF_FILE, tasks, last, queuedAt, recorded,
                   accepted, cycle, pushed>>
    /\ UNCHANGED cacheVars
    /\ UNCHANGED <<mediaVars, apiVars, trace>>

\* --------------------------------------------------------- specifications
Phones == Senders \cup {""}

\* Message contents.
TextOf(b) == Msg("", "", "text", b, "", "none", FALSE, TRUE)
BadText == Msg("", "", "text", "x", "", "none", FALSE, FALSE)
ButtonReply(b) == Msg("", "", "interactive", "", b, "button_reply", FALSE, TRUE)
ListReply == Msg("", "", "interactive", "", "mat_zirconia", "list_reply", FALSE, TRUE)
Media(t, hasId) == Msg("", "", t, "", "", "none", hasId, TRUE)
Other == Msg("", "", "video", "", "", "none", FALSE, TRUE)
TemplateButton(b, payload) == Msg("", "", "button", b, payload, "none", FALSE, TRUE)

\* The message payloads with the given contents, ids and senders.
Messages(C, I, S) ==
    {Payload("message", [c EXCEPT !.id = i, !.from = s]) : c \in C, i \in I, s \in S}

\* The payloads that carry no message.
NoMessage ==
    {Payload(k, NoMsg) : k \in {"invalid_json", "bad_shape", "statuses", "empty"}}

\* History before the first push_ticket call made on its own.
NoPush == [n |-> 0, before |-> File(FALSE, FALSE, <<>>), ticket |-> NoTicket]

\* main.py:435-447  push_ticket called on its own, no other call under way.
push_ticket(ticket) ==
    /\ TICKETS' = TicketsAfter(TICKETS, ticket)
    /\ HANDOFF_FILE' = FileAfterPush(HANDOFF_FILE, ticket)
    /\ pushed' = [n |-> pushed.n + 1, before |-> HANDOFF_FILE, ticket |-> ticket]
    /\ UNCHANGED <<now, ticks, nreq, ADMIN_NUMBER, MAX_MSGS_PER_WINDOW, SEEN_MSG,
                   USER_HITS, PENDING_HUMAN, tasks, last, queuedAt, recorded, accepted, cycle>>
    /\ UNCHANGED cacheVars
    /\ UNCHANGED <<mediaVars, apiVars, trace>>

\* ------------------------------------------------------------- cache.py
\* A string of cache.py is a sequence of one-character strings.  Whitespace is
\* represented by the space character, letters by one letter in both cases.
Alphabet == {"a", "A", " "}

IsSpace(c) == c = " "

\* str.lower, one character.
LowerChar(c) == IF c = "A" THEN "a" ELSE c

\* cache.py:12  text.lower()
Lower(s) == [i \in DOMAIN s |-> LowerChar(s[i])]

\* cache.py:12  .strip().split(): the maximal runs of non-whitespace, in order.
\* cur is the run being read, out the runs read so far.
RECURSIVE SplitAcc(_, _, _)
SplitAcc(s, cur, out) ==
    IF s = <<>> THEN (IF cur = <<>> THEN out ELSE Append(out, cur))
    ELSE IF IsSpace(Head(s))
         THEN SplitAcc(Tail(s), <<>>, IF cur = <<>> THEN out ELSE Append(out, cur))
         ELSE SplitAcc(Tail(s), Append(cur, Head(s)), out)

Split(s) == SplitAcc(s, <<>>, <<>>)

\* cache.py:12  " ".join(words)
RECURSIVE Join(_)
Join(ws) ==
    IF ws = <<>> THEN <<>>
    ELSE IF Len(ws) = 1 THEN ws[1]
    ELSE ws[1] \o <<" ">> \o Join(Tail(ws))

\* A normalisation that keeps the letter case.
cache_normalize_keeps_case(text) == Join(Split(text))

\* cache.py:10-12  _normalize of cache.py (main.py has a _normalize of its own).
cache_normalize(text) == Join(Split(Lower(text)))

\* cache.py:14-17  The key is the digest of "<lang>|<normalised question>".
\* sha256 is taken as injective on the strings of the model, so the key is
\* the digested string itself.
_key(pregunta, lang) == lang \o <<"|">> \o cache_normalize(pregunta)

\* An entry that has expired one second early.
ExpiredAtTtl(exp, t) == exp <= t

\* cache.py:26  if exp < time.time()
Expired(exp, t) == exp < t

\* cache.py:19-30  What get_from_cache returns: hit is FALSE for None.
Lookup(c, k, t) ==
    IF k \notin DOMAIN c THEN [hit |-> FALSE, val |-> ""]
    ELSE IF Expired(c[k].exp, t) THEN [hit |-> FALSE, val |-> ""]
    ELSE [hit |-> TRUE, val |-> c[k].val]

\* cache.py:26-29  _cache after get_from_cache: an expired entry is popped.
CacheAfterGet(c, k, t) ==
    IF k \in DOMAIN c /\ Expired(c[k].exp, t)
    THEN Restrict(c, DOMAIN c \ {k})
    ELSE c

\* cache.py:34-36  _cache after save_to_cache.
CacheAfterSave(c, k, val, t) ==
    [x \in DOMAIN c \cup {k} |->
        IF x = k THEN [exp |-> t + CACHE_TTL, val |-> val] ELSE c[x]]

\* History before the first cache call.
NoCall == [op |-> "none", n |-> 0, q |-> <<>>, lang |-> <<>>, key |-> <<>>,
           hit |-> FALSE, val |-> "", t |-> 0]

mainVars == <<nreq, ADMIN_NUMBER, MAX_MSGS_PER_WINDOW, SEEN_MSG, USER_HITS,
              PENDING_HUMAN, TICKETS, HANDOFF_FILE, tasks, last, queuedAt,
              recorded, accepted, cycle, pushed>>

\* cache.py:32-36  save_to_cache.  A get recorded before this save is
\* forgotten: got is the last get since the last save.
save_to_cache(pregunta, lang, respuesta) ==
    /\ cache' = CacheAfterSave(cache, _key(pregunta, lang), respuesta, now)
    /\ saved' = [op |-> "save", n |-> saved.n + 1, q |-> pregunta, lang |-> lang,
                 key |-> _key(pregunta, lang), hit |-> FALSE, val |-> respuesta,
                 t |-> now]
    /\ got' = NoCall
    /\ UNCHANGED <<now, ticks, asked>>
    /\ UNCHANGED mainVars
    /\ UNCHANGED <<mediaVars, apiVars, trace>>

\* cache.py:19-30  get_from_cache.
get_from_cache(pregunta, lang) ==
    /\ cache' = CacheAfterGet(cache, _key(pregunta, lang), now)
    /\ got' = [op |-> "get", n |-> 0, q |-> pregunta, lang |-> lang,
               key |-> _key(pregunta, lang),
               hit |-> Lookup(cache, _key(pregunta, lang), now).hit,
               val |-> Lookup(cache, _key(pregunta, lang), now).val,
               t |-> now]
    /\ UNCHANGED <<now, ticks, saved, asked>>
    /\ UNCHANGED mainVars
    /\ UNCHANGED <<mediaVars, apiVars, trace>>

\* History before the first answer of GET /webhook or POST /chat.
NoResp == [op |-> "none", n |-> 0, req |-> <<>>, status |-> 0, body |-> "",
           cached |-> FALSE, provider |-> "none"]

\* ---------------------------------------------------------- GET /webhook
\* A token comparison that accepts every token.
TokenMatchesAny(token) == TRUE

\* main.py:577  token == META_VERIFY_TOKEN
TokenMatches(token) == token = META_VERIFY_TOKEN

\* main.py:571-579  verify_webhook.  An absent query parameter reads as "".
verify_webhook(mode, token, challenge) ==
    /\ resp' = IF mode = "subscribe" /\ TokenMatches(token) /\ challenge # ""
               THEN [op |-> "verify", n |-> resp.n, req |-> <<mode, token, challenge>>,
                     status |-> 200, body |-> challenge, cached |-> FALSE,
                     provider |-> "none"]
               ELSE [op |-> "verify", n |-> resp.n, req |-> <<mode, token, challenge>>,
                     status |-> 403, body |-> "forbidden", cached |-> FALSE,
                     provider |-> "none"]
    /\ UNCHANGED <<now, ticks, HIST, chats, arg, ret, chunker, trace>>
    /\ UNCHANGED <<mainVars, cacheVars, mediaVars>>

\* ------------------------------------------------------------- POST /chat
\* str.strip on a question.
RECURSIVE LStrip(_)
LStrip(s) == IF s # <<>> /\ IsSpace(Head(s)) THEN LStrip(Tail(s)) ELSE s

RECURSIVE RStrip(_)
RStrip(s) ==
    IF s # <<>> /\ IsSpace(s[Len(s)]) THEN RStrip(SubSeq(s, 1, Len(s) - 1)) ELSE s

\* main.py:77-82, 544  sanitize_text((body.pregunta or "").strip()) on the
\* questions of the model, which hold no carriage return, no emoji and fewer
\* than MAX_USER_CHARS characters.
sanitize_text(s) == RStrip(LStrip(s))

\* The words of a question over Alphabet, as detect_lang sees them: plain
\* Latin-script words that are no keyword and carry no accent.
PlainWords(q) == [i \in DOMAIN Split(q) |-> "hello"]

\* A language code as the characters _key concatenates.
LangChars(code) ==
    CASE code = "en" -> <<"e", "n">>
      [] code = "es" -> <<"e", "s">>
      [] OTHER -> <<code>>

\* main.py:551  HIST.append(item)
HistAppended(H, item) == Append(H, item)

\* main.py:552  if len(HIST) > MAX_HIST: del HIST[: len(HIST) - MAX_HIST]
HistTrimmed(H) ==
    IF Len(H) > MAX_HIST THEN SubSeq(H, Len(H) - MAX_HIST + 1, Len(H)) ELSE H

\* main.py:551-552 run without interruption.
HistAfter(H, item) == HistTrimmed(HistAppended(H, item))

\* A POST /chat request under way: the body, the sanitised question, its
\* language, the position of the request, and the outcome and content of its
\* provider call once made.  chat is a plain def, so FastAPI runs each request
\* in a thread of its pool and the requests interleave between statements.
ChatRequest(pregunta, q, lang, pc) ==
    [pregunta |-> pregunta, q |-> q, lang |-> lang, pc |-> pc,
     provider |-> "none", a |-> ""]

\* A request that has been answered: its locals are gone.
Answered == ChatRequest(<<>>, <<>>, <<>>, "done")

\* The answer of request n.  FastAPI answers a raised HTTPException with its
\* status code.
ChatAnswer(n, pregunta, status, body, isCached, provider) ==
    [op |-> "chat", n |-> n, req |-> <<pregunta>>, status |-> status,
     body |-> body, cached |-> isCached, provider |-> provider]

\* A lookup that never finds an entry.
ChatLookupMisses(c, k, t) == [hit |-> FALSE, val |-> ""]

\* main.py:547  cached = get_from_cache(q, lang)
ChatLookup(c, k, t) == Lookup(c, k, t)

\* main.py:542-548  chat up to the cache lookup, for the question pregunta:
\* 400 on a blank question, the cached answer on a hit, and on to the
\* provider call on a miss.
chat(pregunta) ==
    LET n == Len(chats) + 1
        q == sanitize_text(pregunta)
        lang == LangChars(detect_lang(PlainWords(q), <<>>))
        k == _key(q, lang)
        cached == ChatLookup(cache, k, now)
    IN  /\ IF q = <<>>
           THEN \* main.py:545
                /\ resp' = ChatAnswer(n, pregunta, 400, "Falta 'pregunta'", FALSE, "none")
                /\ chats' = Append(chats, Answered)
                /\ UNCHANGED cache
           ELSE IF cached.hit
           THEN \* main.py:547-548
                /\ resp' = ChatAnswer(n, pregunta, 200, cached.val, TRUE, "none")
                /\ chats' = Append(chats, Answered)
                /\ UNCHANGED cache
           ELSE \* main.py:547, cache.py:26-29
                /\ chats' = Append(chats, ChatRequest(pregunta, q, lang, "call"))
                /\ cache' = CacheAfterGet(cache, k, now)
                /\ UNCHANGED resp
        /\ UNCHANGED <<now, ticks, asked, saved, got, HIST, arg, ret, chunker, trace>>
        /\ UNCHANGED <<mainVars, mediaVars>>

\* main.py:549-550, 123-136  a = call_openai(q, lang_hint=lang) of request n,
\* with outcome r and content a: the exception ends the request with 500,
\* the content returned is saved by save_to_cache(q, lang, a).  The call
\* touches no state of the process, so its return and the save are one step.
ChatCall(n, r, a) ==
    /\ n \in DOMAIN chats
    /\ chats[n].pc = "call"
    /\ LET out == call_openai(r, a)
       IN  IF out.raised
           THEN /\ resp' = ChatAnswer(n, chats[n].pregunta, 500, out.val, FALSE, r)
                /\ chats' = [chats EXCEPT ![n] = Answered]
                /\ UNCHANGED cache
           ELSE /\ chats' = [chats EXCEPT ![n].pc = "append", ![n].provider = r,
                                          ![n].a = out.val]
                /\ cache' = CacheAfterSave(cache, _key(chats[n].q, chats[n].lang),
                                           out.val, now)
                /\ UNCHANGED resp
    /\ UNCHANGED <<now, ticks, asked, saved, got, HIST, arg, ret, chunker, trace>>
    /\ UNCHANGED <<mainVars, mediaVars>>

\* main.py:551  HIST.append of request n.
ChatAppend(n) ==
    /\ n \in DOMAIN chats
    /\ chats[n].pc = "append"
    /\ HIST' = HistAppended(HIST, [t |-> now, pregunta |-> chats[n].q,
                                   respuesta |-> chats[n].a])
    /\ chats' = [chats EXCEPT ![n].pc = "trim"]
    /\ UNCHANGED <<now, ticks, resp, arg, ret, chunker, trace>>
    /\ UNCHANGED <<mainVars, cacheVars, mediaVars>>

\* main.py:552-553  the trim of HIST and the answer of request n.
ChatTrim(n) ==
    /\ n \in DOMAIN chats
    /\ chats[n].pc = "trim"
    /\ HIST' = HistTrimmed(HIST)
    /\ resp' = ChatAnswer(n, chats[n].pregunta, 200, chats[n].a, FALSE,
                          chats[n].provider)
    /\ chats' = [chats EXCEPT ![n] = Answered]
    /\ UNCHANGED <<now, ticks, arg, ret, chunker, trace>>
    /\ UNCHANGED <<mainVars, cacheVars, mediaVars>>

\* No /tmp/handoff.json yet.
Absent == File(FALSE, FALSE, <<>>)

\* _cache as the POST /chat request that appended the last entry of H left it.
CacheOf(H) ==
    IF H = <<>> THEN <<>>
    ELSE LET e == H[Len(H)]
         IN  _key(e.pregunta, <<"e", "n">>) :> [exp |-> e.t + CACHE_TTL, val |-> e.respuesta]

\* simple_chunk before it is called.  pc is the position in the function
\* ("loop" at the while test of line 163, "returned" after a return); text, i
\* and chunks are its locals and out is the list it returned.
NotCalled ==
    [pc |-> "none", text |-> <<>>, i |-> 0, chunks |-> <<>>, out |-> <<>>]

\* The process configured with an admin number of admins and a rate
\* threshold of maxes, with one of files on disk, one of pairs to compare
\* cache keys for, and one of hists as the POST /chat history so far: the
\* other maps empty.
StartWith(admins, maxes, files, pairs, args, hists) ==
    /\ now = 0
    /\ ticks = 0
    /\ nreq = 0
    /\ ADMIN_NUMBER \in admins
    /\ MAX_MSGS_PER_WINDOW \in maxes
    /\ SEEN_MSG = <<>>
    /\ USER_HITS = [s \in Phones |-> <<>>]
    /\ PENDING_HUMAN = {}
    /\ TICKETS = <<>>
    /\ HANDOFF_FILE \in files
    /\ tasks = <<>>
    /\ last = Event("init", "none", NoMsg, "none", <<>>, 0, FALSE, FALSE)
    /\ queuedAt = [i \in MsgIds |-> <<>>]
    /\ recorded = [i \in MsgIds |-> NoRecord]
    /\ accepted = [s \in Phones |-> <<>>]
    /\ cycle = [s \in Phones |-> 0]
    /\ pushed = NoPush
    /\ HIST \in hists
    /\ cache = CacheOf(HIST)
    /\ saved = NoCall
    /\ got = NoCall
    /\ asked \in pairs
    /\ MAX_MEDIA_BYTES = LowMaxMedia
    /\ disk = <<>>
    /\ trace = NoCalls
    /\ resp = NoResp
    /\ chats = <<>>
    /\ arg \in args
    /\ ret = ""
    /\ chunker = NotCalled

\* The process after start-up.
Start(admins, maxes, files, pairs, args) ==
    StartWith(admins, maxes, files, pairs, args, {<<>>})

\* The front door: messages of one sender with and without an id, redelivered
\* within and after the de-dup retention period, and payloads without a
\* message.  No message of this universe starts a hand-off, so every handler
\* is its Dispatch step.
Payloads ==
    NoMessage \cup Messages({TextOf("Hola")}, {"", "m1", "m2"}, {"s1"})

Init == Start({""}, {LowMaxMsgs}, {Absent}, {<<>>}, {<<>>})

Next ==
    \/ \E p \in Payloads : nreq < MaxReq /\ webhook_handler(p)
    \/ \E n \in DOMAIN tasks : Dispatch(n)
    \/ \E d \in {1, SEEN_TTL} : ticks < MaxTicks /\ Tick(d)

Spec == Init /\ [][Next]_vars

\* The rate limiter: two senders, the clock advancing by seconds and by whole
\* rate windows.
RatePayloads ==
    Messages({TextOf("Hola")}, {""}, Senders)
    \cup Messages({TextOf("Hola")}, {"m1"}, {"s1"})

NextRate ==
    \/ \E p \in RatePayloads : nreq < MaxReq /\ webhook_handler(p)
    \/ \E n \in DOMAIN tasks : Dispatch(n)
    \/ \E d \in {1, WINDOW} : ticks < MaxTicks /\ Tick(d)

SpecRate == Init /\ [][NextRate]_vars

\* The de-dup map next to the rate limiter: one sender whose deployment lets
\* one message per window through, messages with and without an id, the
\* clock advancing by a second and by the retention period.
DedupPayloads == Messages({TextOf("Nombre: Ana")}, {"", "m1"}, {"s1"})

InitDedup == Start({""}, {StrictMaxMsgs}, {Absent}, {<<>>}, {<<>>})

NextDedup ==
    \/ \E p \in DedupPayloads : nreq < MaxReq /\ webhook_handler(p)
    \/ \E n \in DOMAIN tasks : Dispatch(n)
    \/ \E d \in {1, SEEN_TTL} : ticks < MaxTicks /\ Tick(d)

SpecDedup == InitDedup /\ [][NextDedup]_vars

\* The handlers: one sender, six different messages and a payload of the
\* wrong shape, under the default rate threshold, with and without an admin
\* number.
HandlerPayloads ==
    {Payload("bad_shape", NoMsg),
     Payload("message", [TextOf("Humano") EXCEPT !.id = "m1", !.from = "s1"]),
     Payload("message", [TextOf("Nombre: Ana") EXCEPT !.id = "m2", !.from = "s1"]),
     Payload("message", [TextOf("Hola") EXCEPT !.id = "m3", !.from = "s1"]),
     Payload("message", [Other EXCEPT !.id = "m4", !.from = "s1"]),
     Payload("message", [BadText EXCEPT !.id = "m5", !.from = "s1"]),
     Payload("message", [ButtonReply("btn_humano") EXCEPT !.id = "m6", !.from = "s1"])}

InitHandler == Start({"", "admin"}, {DefaultMaxMsgs}, {Absent}, {<<>>}, {<<>>})

\* The thread pool runs the handlers of different requests in any interleaving.
NextHandler ==
    \/ \E p \in HandlerPayloads : nreq < MaxHandled /\ webhook_handler(p)
    \/ \E n \in DOMAIN tasks : Dispatch(n)
    \/ \E n \in DOMAIN tasks : WriteFile(n)
    \/ \E n \in DOMAIN tasks : Confirm(n)

SpecHandler == InitHandler /\ [][NextHandler]_vars

\* The same, with the messages handled one after another: a handler starts
\* only when no other handler is under way.
NextSeq ==
    \/ \E p \in HandlerPayloads : nreq < MaxHandled /\ webhook_handler(p)
    \/ \E n \in DOMAIN tasks :
            (\A k \in DOMAIN tasks : tasks[k].pc = "queued") /\ Dispatch(n)
    \/ \E n \in DOMAIN tasks : WriteFile(n)
    \/ \E n \in DOMAIN tasks : Confirm(n)

SpecSeq == InitHandler /\ [][NextSeq]_vars

\* The ticket sink on its own: push_ticket calls one at a time, starting with
\* the file absent, unreadable, empty or holding a record.
TicketInputs ==
    {[ts |-> 0, from |-> f, mensaje |-> "Nombre: Ana", cyc |-> 1] : f \in {"s1", "s2", "s3"}}

TicketFiles ==
    {Absent, File(TRUE, FALSE, <<>>), File(TRUE, TRUE, <<>>)}
    \cup {File(TRUE, TRUE, <<t>>) : t \in TicketInputs}

InitTicket == Start({""}, {DefaultMaxMsgs}, TicketFiles, {<<>>}, {<<>>})

NextTicket == \E t \in TicketInputs : pushed.n < MaxPush /\ push_ticket(t)

SpecTicket == InitTicket /\ [][NextTicket]_vars

\* The cache over time: saves and gets of a few questions, two of which
\* share a key, with the clock advancing by a second or by the TTL.
Langs == {<<"e", "s">>, <<"e", "n">>}
Answers == {"", "r1"}
CacheQuestions == {<<"a">>, <<"A", " ">>, <<"a", "a">>}

NextCache ==
    \/ \E q \in CacheQuestions, l \in Langs, a \in Answers :
            saved.n < MaxSaves /\ save_to_cache(q, l, a)
    \/ \E q \in CacheQuestions, l \in Langs : get_from_cache(q, l)
    \/ \E d \in {1, CACHE_TTL} : ticks < MaxTicks /\ Tick(d)

SpecCache == Init /\ [][NextCache]_vars

\* Cache keys: every pair of questions up to MaxLen characters, under the
\* same language and under two languages; the first is saved, the second is
\* looked up and then saved too.
RECURSIVE StringsUpTo(_)
StringsUpTo(n) ==
    IF n = 0 THEN {<<>>}
    ELSE StringsUpTo(n - 1) \cup [1..n -> Alphabet]

Questions == StringsUpTo(MaxLen)

KeyPairs ==
    {[q1 |-> q1, l1 |-> <<"e", "s">>, q2 |-> q2, l2 |-> l2] :
        q1 \in Questions, q2 \in Questions, l2 \in Langs}

InitKey == Start({""}, {DefaultMaxMsgs}, {Absent}, KeyPairs, {<<>>})

NextKey ==
    \/ saved.n = 0 /\ save_to_cache(asked.q1, asked.l1, "r1")
    \/ saved.n = 1 /\ get_from_cache(asked.q2, asked.l2)
    \/ saved.n = 1 /\ got.op = "get" /\ save_to_cache(asked.q2, asked.l2, "r2")

SpecKey == InitKey /\ [][NextKey]_vars

\* Language detection: every text of up to MaxWords words, with and without
\* a phone number.
Vocabulary ==
    {"marhaban(ar)", "namaste(hi)", "nihao(zh)", "annyeong(ko)", "privet(ru)",
     "precio", "price", "PRICE", "humano", "prix", "preco+cedilla", "delais+acute", "nino+tilde",
     "acao+cedilla+tilde", "ou+grave", "hello"}

RECURSIVE TextsUpTo(_)
TextsUpTo(n) ==
    IF n = 0 THEN {<<>>}
    ELSE TextsUpTo(n - 1) \cup [1..n -> Vocabulary]

DetectPhones ==
    {<<>>, <<"5", "2", "1">>, <<"1", "5">>, <<"9", "7", "1", "5">>,
     <<"3", "5", "1", "9">>, <<"9", "9">>}

DetectInputs ==
    {[text |-> t, phone |-> p] : t \in TextsUpTo(MaxWords), p \in DetectPhones}

InitLang == Start({""}, {DefaultMaxMsgs}, {Absent}, {<<>>}, DetectInputs)

\* One call of detect_lang.
Detect ==
    /\ ret = ""
    /\ ret' = detect_lang(arg.text, arg.phone)
    /\ UNCHANGED <<now, ticks, asked, cache, saved, got, resp, HIST, chats, arg, chunker, trace>>
    /\ UNCHANGED mainVars
    /\ UNCHANGED mediaVars

NextLang == Detect

SpecLang == InitLang /\ [][NextLang]_vars

\* ------------------------------------------------- wikipedia-service: chunks
\* app/main.py:19  MAX_CHUNK_CHARS, the default of the environment variable.
MAX_CHUNK_CHARS == 1200

\* app/main.py:20
MIN_CHUNK_CHARS == 400

\* app/main.py:157  the default of simple_chunk's overlap parameter.
DefaultOverlap == 150

\* str.strip, on a text or on a chunk.
Strip(s) == RStrip(LStrip(s))

\* Python's min on two integers.
Min(a, b) == IF a <= b THEN a ELSE b

\* Length of a word of the texts given to simple_chunk, its blank included.  A
\* text of n characters: words of WordLen - 1 letters with one blank after
\* each, so that a text or a chunk can end in a blank.
WordLen == 20

Spaced(n) == [k \in 1..n |-> IF k % WordLen = 0 THEN " " ELSE "a"]

\* A text of n letters between two blanks.
Padded(n) == <<" ">> \o [k \in 1..n |-> "a"] \o <<" ">>

\* The limits a caller passes as max_len: the default, one above
\* MIN_CHUNK_CHARS, the overlap itself, one below the overlap, and none.
ChunkLimits == {MAX_CHUNK_CHARS, MIN_CHUNK_CHARS + 100, DefaultOverlap, 100, 0}

\* The lengths of the texts chunked with a limit of m: empty, at most m, and
\* up to MaxOver words longer than m.
ChunkLengths(m) ==
    {0, m} \cup (IF m = 0 THEN {} ELSE {m - 1})
           \cup {m + WordLen * k : k \in 1..MaxOver}
           \cup {m + WordLen * k + 1 : k \in 1..MaxOver}

\* The calls simple_chunk(text, max_len=m) of the model, as page
\* (app/main.py:211-215) makes them with the max_chars of the request.
ChunkInputs ==
    {[text |-> t, max_len |-> m] :
        t \in UNION {{Spaced(n), Padded(n)} : n \in UNION {ChunkLengths(l) : l \in ChunkLimits}},
        m \in ChunkLimits}

InitChunk == Start({""}, {DefaultMaxMsgs}, {Absent}, {<<>>}, ChunkInputs)

\* app/main.py:157-162  simple_chunk up to the loop: the text is stripped and
\* returned whole when it fits in max_len.
simple_chunk ==
    /\ chunker.pc = "none"
    /\ LET text == Strip(arg.text)
       IN  chunker' =
               IF Len(text) <= arg.max_len
               THEN [chunker EXCEPT !.pc = "returned", !.text = text,
                                    !.out = <<text>>]
               ELSE [chunker EXCEPT !.pc = "loop", !.text = text, !.i = 0,
                                    !.chunks = <<>>]
    /\ UNCHANGED <<now, ticks, asked, cache, saved, got, resp, HIST, chats, arg, ret, trace>>
    /\ UNCHANGED mainVars
    /\ UNCHANGED mediaVars

\* The locals after one iteration of the loop body, app/main.py:164-170.
\* text[i:end] is SubSeq(text, i + 1, end) for the 0 <= i <= end the loop
\* reaches with a max_len that is not negative.
IterationOf(c, max_len) ==
    LET end == Min(c.i + max_len, Len(c.text))
        chunk == Strip(SubSeq(c.text, c.i + 1, end))
    IN  [c EXCEPT !.chunks = IF Len(chunk) >= MIN_CHUNK_CHARS
                             THEN Append(c.chunks, chunk)
                             ELSE c.chunks,
                  !.i = IF end - DefaultOverlap < 0
                        THEN end
                        ELSE end - DefaultOverlap]

\* app/main.py:163-170  the loop test holds and the body runs once.  An
\* iteration that leaves i and chunks as they were is the loop spinning: the
\* same iteration follows, for ever.
ChunkIteration ==
    /\ chunker.pc = "loop"
    /\ chunker.i < Len(chunker.text)
    /\ chunker' = IterationOf(chunker, arg.max_len)
    /\ UNCHANGED <<now, ticks, asked, cache, saved, got, resp, HIST, chats, arg, ret, trace>>
    /\ UNCHANGED mainVars
    /\ UNCHANGED mediaVars

\* app/main.py:163, 171  the loop test fails and the chunks are returned, or
\* the whole text when no chunk was kept.
ChunkReturn ==
    /\ chunker.pc = "loop"
    /\ ~(chunker.i < Len(chunker.text))
    /\ chunker' = [chunker EXCEPT !.pc = "returned",
                                  !.out = IF chunker.chunks # <<>>
                                          THEN chunker.chunks
                                          ELSE <<chunker.text>>]
    /\ UNCHANGED <<now, ticks, asked, cache, saved, got, resp, HIST, chats, arg, ret, trace>>
    /\ UNCHANGED mainVars
    /\ UNCHANGED mediaVars

NextChunk ==
    \/ simple_chunk
    \/ ChunkIteration
    \/ ChunkReturn

\* The call runs on a worker thread that is always scheduled: a statement
\* that can run does run.
SpecChunk == InitChunk /\ [][NextChunk]_vars /\ WF_vars(NextChunk)

\* The endpoints next to the webhook receiver: verification requests with
\* every combination of mode, token and challenge, and chat questions (one of
\* them blank) with the provider answering or failing, the requests
\* interleaving.
VerifyModes == {"subscribe", ""}
VerifyTokens == {META_VERIFY_TOKEN, "wrong"}
Challenges == {"c1", ""}
ChatQuestions == {<<"a">>, <<"A", " ">>, <<" ">>}

InitApi == Start({""}, {DefaultMaxMsgs}, {Absent}, {<<>>}, {<<>>})

NextApi ==
    \/ \E mode \in VerifyModes, token \in VerifyTokens, challenge \in Challenges :
            verify_webhook(mode, token, challenge)
    \/ \E q \in ChatQuestions : Len(chats) < MaxChats /\ chat(q)
    \/ \E n \in DOMAIN chats, r \in Outcomes, a \in Answers : ChatCall(n, r, a)
    \/ \E n \in DOMAIN chats : ChatAppend(n)
    \/ \E n \in DOMAIN chats : ChatTrim(n)

SpecApi == InitApi /\ [][NextApi]_vars

\* POST /chat over time: the process has answered MAX_HIST times the question
\* "a", each time after the entry of the time before had expired, the last
\* time CACHE_TTL + 1 seconds ago; now the requests interleave, with the clock
\* advancing by a second or by the TTL.
FullHist ==
    [i \in 1..MAX_HIST |->
        [t |-> (i - MAX_HIST - 1) * (CACHE_TTL + 1), pregunta |-> <<"a">>,
         respuesta |-> "r1"]]

\* What the provider answers from now on.
ChatAnswers == {"r2"}

InitChat == StartWith({""}, {DefaultMaxMsgs}, {Absent}, {<<>>}, {<<>>}, {FullHist})

NextChat ==
    \/ \E q \in ChatQuestions : Len(chats) < MaxChats /\ chat(q)
    \/ \E n \in DOMAIN chats, r \in Outcomes, a \in ChatAnswers : ChatCall(n, r, a)
    \/ \E n \in DOMAIN chats : ChatAppend(n)
    \/ \E n \in DOMAIN chats : ChatTrim(n)
    \/ \E d \in {1, CACHE_TTL} : ticks < MaxChatTicks /\ Tick(d)

SpecChat == InitChat /\ [][NextChat]_vars

\* The media pipeline: image, document and audio messages of one sender, one
\* image without a media id, handled in any interleaving, with chunks of one
\* and two bytes against a limit of LowMaxMedia bytes.
ChunkSizes == {1, 2}

MediaPayloads ==
    {Payload("message", [Media("image", TRUE) EXCEPT !.id = "m1", !.from = "s1"]),
     Payload("message", [Media("document", TRUE) EXCEPT !.id = "m2", !.from = "s1"]),
     Payload("message", [Media("audio", TRUE) EXCEPT !.id = "m3", !.from = "s1"]),
     Payload("message", [Media("image", FALSE) EXCEPT !.id = "m4", !.from = "s1"])}

NextMedia ==
    \/ \E p \in MediaPayloads : nreq < MaxMedia /\ webhook_handler(p)
    \/ \E n \in DOMAIN tasks : Dispatch(n)
    \/ \E n \in DOMAIN tasks : wa_get_media_url(n)
    \/ \E n \in DOMAIN tasks : OpenDownload(n)
    \/ \E n \in DOMAIN tasks, c \in ChunkSizes : ReceiveChunk(n, c)
    \/ \E n \in DOMAIN tasks : StreamError(n)
    \/ \E n \in DOMAIN tasks : EndOfStream(n)
    \/ \E n \in DOMAIN tasks : Process(n)

SpecMedia == InitApi /\ [][NextMedia]_vars

\* A hand-off waiting for its details: the trigger button and, once it is
\* handled, every kind of message that is no text and the text with the
\* details, of one sender, handled in any interleaving.  A media file arrives
\* in chunks of LowMaxMedia bytes: the first fills the limit, a second
\* exceeds it.
PendingPayloads ==
    {Payload("message", [ButtonReply("btn_humano") EXCEPT !.id = "m1", !.from = "s1"]),
     Payload("message", [TextOf("Nombre: Ana") EXCEPT !.id = "m2", !.from = "s1"]),
     Payload("message", [Media("image", TRUE) EXCEPT !.id = "m3", !.from = "s1"]),
     Payload("message", [Media("document", TRUE) EXCEPT !.id = "m4", !.from = "s1"]),
     Payload("message", [Media("audio", TRUE) EXCEPT !.id = "m5", !.from = "s1"]),
     Payload("message", [TemplateButton("Humano", "") EXCEPT !.id = "m6", !.from = "s1"]),
     Payload("message", [ListReply EXCEPT !.id = "m7", !.from = "s1"]),
     Payload("message", [ButtonReply("btn_cotizar") EXCEPT !.id = "m8", !.from = "s1"]),
     Payload("message", [ButtonReply("btn_tiempos") EXCEPT !.id = "m9", !.from = "s1"]),
     Payload("message", [Other EXCEPT !.id = "m10", !.from = "s1"])}

NextPending ==
    \/ \E p \in PendingPayloads :
            /\ IF nreq = 0 THEN p.msg.id = "m1"
               ELSE /\ nreq < MaxPending + 1
                    /\ p.msg.id # "m1"
                    /\ cycle["s1"] = 1
            /\ webhook_handler(p)
    \/ \E n \in DOMAIN tasks : Dispatch(n)
    \/ \E n \in DOMAIN tasks : WriteFile(n)
    \/ \E n \in DOMAIN tasks : Confirm(n)
    \/ \E n \in DOMAIN tasks : wa_get_media_url(n)
    \/ \E n \in DOMAIN tasks : OpenDownload(n)
    \/ \E n \in DOMAIN tasks : ReceiveChunk(n, LowMaxMedia)
    \/ \E n \in DOMAIN tasks : StreamError(n)
    \/ \E n \in DOMAIN tasks : EndOfStream(n)
    \/ \E n \in DOMAIN tasks : Process(n)

SpecPending == InitApi /\ [][NextPending]_vars

\* ------------------------------------------------------------- properties
\* A step of POST /webhook (every request is counted).
WebhookStep == nreq' = nreq + 1

\* The program state a webhook request can touch, history included.
served == <<SEEN_MSG, USER_HITS, PENDING_HUMAN, TICKETS, HANDOFF_FILE, tasks,
            queuedAt, accepted, cycle>>

\* Any two hand-overs of message id i to the handler lie more than SEEN_TTL apart.
HandedOnceInWindow(i) ==
    \A a, b \in 1..Len(queuedAt[i]) :
        a < b => queuedAt[i][b] - queuedAt[i][a] > SEEN_TTL

\* The message id of the request was handed to the handler at most SEEN_TTL ago.
Redelivery(m) ==
    /\ queuedAt[m.id] # <<>>
    /\ now - queuedAt[m.id][Len(queuedAt[m.id])] <= SEEN_TTL

\* C1 as stated: for every message id, the empty one included, two deliveries
\* within the retention window hand the message to handle_incoming_message at
\* most once, and a handled message results in exactly one outbound send.
C1_AsStated ==
    /\ \A i \in MsgIds : HandedOnceInWindow(i)
    /\ last.op = "handler" => Len(last.sends) = 1

\* C1 (amended): for every non-empty message id, two hand-overs to
\* handle_incoming_message are more than SEEN_TTL apart, and a delivery within
\* SEEN_TTL of the hand-over is answered dup_ok without queuing a task, sending
\* a message, recording a rate-limit hit or touching tickets.
C1_Idempotent ==
    [][/\ \A i \in MsgIds \ {""} : HandedOnceInWindow(i)'
       /\ (WebhookStep /\ last'.kind = "message" /\ last'.msg.id # ""
             /\ Redelivery(last'.msg))
          => /\ last'.status = "dup_ok"
             /\ last'.sends = <<>>
             /\ UNCHANGED <<USER_HITS, PENDING_HUMAN, TICKETS, HANDOFF_FILE,
                            tasks, queuedAt, accepted, cycle>>]_vars

\* A redelivery was answered dup_ok after the id had been handed over twice,
\* the second time after the retention period.
C1_Witness ==
    /\ last.status = "dup_ok"
    /\ Len(queuedAt["m1"]) = 2

\* C5: a payload whose messages list is absent or empty is answered with a
\* success status and leaves the de-dup map, the rate-limit hits, the task
\* queue, the pending set and the tickets as they were, and sends nothing.
C5_NoMessageNoEffect ==
    [][(WebhookStep /\ last'.kind \in {"statuses", "empty"})
       => /\ last'.status \in {"status_ok", "no_message"}
          /\ last'.sends = <<>>
          /\ UNCHANGED served]_vars

\* A payload without messages arrived while the de-dup map, the hit deques
\* and the task queue were non-empty.
C5_Witness ==
    /\ last.kind = "empty"
    /\ last.status = "no_message"
    /\ SEEN_MSG # <<>>
    /\ USER_HITS["s1"] # <<>>
    /\ tasks # <<>>

\* The number of messages of sender s accepted in the last WINDOW seconds.
RecentAccepted(s) ==
    Cardinality({k \in 1..Len(accepted[s]) : now - accepted[s][k] <= WINDOW})

\* Every window of WINDOW seconds holds at most MAX_MSGS_PER_WINDOW accepted
\* messages of sender s.
WindowBounded(s) ==
    \A a, b \in 1..Len(accepted[s]) :
        (a <= b /\ accepted[s][b] - accepted[s][a] <= WINDOW)
            => b - a + 1 <= MAX_MSGS_PER_WINDOW

\* C7: for every sender every window of WINDOW seconds holds at most
\* MAX_MSGS_PER_WINDOW accepted messages; a message that is no duplicate is
\* answered rate_limited and not queued when the sender has that many accepted
\* messages in the last WINDOW seconds, and is queued otherwise (older
\* timestamps no longer count).
C7_SlidingWindow ==
    [][/\ \A s \in Phones : WindowBounded(s)'
       /\ (WebhookStep /\ last'.kind = "message" /\ last'.status # "dup_ok")
          => IF RecentAccepted(last'.msg.from) >= MAX_MSGS_PER_WINDOW
             THEN /\ last'.status = "rate_limited"
                  /\ UNCHANGED <<tasks, accepted>>
             ELSE /\ last'.status = "queued"
                  /\ Len(accepted'[last'.msg.from])
                        = Len(accepted[last'.msg.from]) + 1]_vars

\* A sender with MAX_MSGS_PER_WINDOW accepted messages at one instant is
\* accepted again one second after the window has passed.
C7_Witness ==
    /\ last.status = "queued"
    /\ last.msg.from = "s1"
    /\ Len(accepted["s1"]) = MAX_MSGS_PER_WINDOW + 1
    /\ now = WINDOW + 1
    /\ Len(USER_HITS["s1"]) = 1

\* A handler returned: its task left the queue.
HandlerDone == nreq' = nreq /\ DOMAIN tasks' # DOMAIN tasks

\* A 'talk to human' trigger: the text keyword or the btn_humano button.
IsTrigger(m) ==
    \/ m.mtype = "text" /\ m.wf /\ m.body = "Humano"
    \/ m.mtype \in {"interactive", "button"} /\ m.bid = "btn_humano"

\* The tickets of T created for sender s in its hand-off cycle c.
TicketsOf(T, s, c) ==
    {k \in 1..Len(T) : T[k].from = s /\ T[k].cyc = c}

\* No sender has two tickets from one hand-off cycle.
OneTicketPerCycle ==
    \A a, b \in 1..Len(TICKETS) :
        (a # b /\ TICKETS[a].from = TICKETS[b].from) => TICKETS[a].cyc # TICKETS[b].cyc

\* C2: with the messages handled one after another, a trigger from a sender
\* that is not pending puts the sender into PENDING_HUMAN without a ticket; a
\* text message from a pending sender makes exactly one push_ticket call, the
\* only ticket of that cycle, and takes the sender out of PENDING_HUMAN; a
\* message that is no trigger from a sender that is not pending creates no
\* ticket and leaves the sender not pending.
C2_HandoffMachine ==
    [][/\ OneTicketPerCycle'
       /\ HandlerDone =>
            LET m == last'.msg
                s == m.from
            IN  /\ (IsTrigger(m) /\ s \notin PENDING_HUMAN)
                    => /\ s \in PENDING_HUMAN'
                       /\ cycle'[s] = cycle[s] + 1
                       /\ TICKETS' = TICKETS
                /\ (m.mtype = "text" /\ m.wf /\ s \in PENDING_HUMAN)
                    => /\ last'.tickets = 1
                       /\ Cardinality(TicketsOf(TICKETS', s, cycle[s])) = 1
                       /\ s \notin PENDING_HUMAN'
                /\ (~IsTrigger(m) /\ s \notin PENDING_HUMAN)
                    => /\ last'.tickets = 0
                       /\ TICKETS' = TICKETS
                       /\ s \notin PENDING_HUMAN']_vars

\* A trigger, the details and a third text were handled: one ticket, the
\* sender not pending, the third text answered by the reply generator.
C2_Witness ==
    /\ cycle["s1"] = 1
    /\ Len(TICKETS) = 1
    /\ "s1" \notin PENDING_HUMAN
    /\ last.op = "handler"
    /\ last.status = "llm"
    /\ tasks = <<>>

\* C3 as stated: in every interleaving of the handlers at most one ticket is
\* created per sender and hand-off cycle.
C3_AsStated == OneTicketPerCycle

\* C4 as stated: when an exception reached the top-level except of the
\* handler or of the webhook body, an error reply was sent to the user.
C4_AsStated == last.raised => last.sends # <<>>

\* C6: a message whose type is none of text, button, interactive, audio,
\* image, document is answered with exactly one fallback text to its sender,
\* without a ticket and without a change of PENDING_HUMAN.
C6_Fallback ==
    [][(HandlerDone /\ last'.msg.mtype \notin
            {"text", "button", "interactive", "audio", "image", "document"})
       => /\ last'.sends = <<Send(last'.msg.from, "fallback")>>
          /\ last'.tickets = 0
          /\ ~last'.raised
          /\ UNCHANGED <<TICKETS, HANDOFF_FILE, PENDING_HUMAN, cycle>>]_vars

\* A video message of a sender in waiting_handoff was answered with the
\* fallback text and the sender is still pending.
C6_Witness ==
    /\ last.op = "handler"
    /\ last.msg.mtype = "video"
    /\ last.pend
    /\ last.sends = <<Send("s1", "fallback")>>
    /\ "s1" \in PENDING_HUMAN

\* The last get asked for the question and language of the last save.
GetOfSaved ==
    /\ got.op = "get"
    /\ saved.op = "save"
    /\ got.q = saved.q
    /\ got.lang = saved.lang

\* C8 as stated: a get of what was saved returns the saved answer before
\* CACHE_TTL has elapsed since the save, and None once CACHE_TTL has elapsed.
C8_AsStated ==
    GetOfSaved =>
        IF got.t - saved.t < CACHE_TTL
        THEN got.hit /\ got.val = saved.val
        ELSE ~got.hit

\* C8: save_to_cache(q, lang, a) followed by get_from_cache(q, lang) returns a
\* unchanged as long as no more than CACHE_TTL has elapsed since the save, and
\* None once more than CACHE_TTL has elapsed.
C8_RoundTrip ==
    GetOfSaved =>
        IF got.t - saved.t <= CACHE_TTL
        THEN got.hit /\ got.val = saved.val
        ELSE ~got.hit

\* An answer is read back exactly CACHE_TTL after it was saved.
C8_Witness ==
    /\ GetOfSaved
    /\ got.t - saved.t = CACHE_TTL
    /\ got.hit
    /\ got.val = "r1"

\* ------------------------------------------------------------- C9
\* The same letter, in either case.
SameLetter(c, d) == c = d \/ {c, d} = {"a", "A"}

\* p and q differ at most in the case of their letters.
CaseVariant(p, q) ==
    /\ Len(p) = Len(q)
    /\ \A i \in DOMAIN p : SameLetter(p[i], q[i])

\* q is p, up to letter case, with one more whitespace character at the
\* start, at the end, or next to whitespace of p.
MoreSpace(p, q) ==
    \E i \in 0..Len(p) :
        /\ i = 0 \/ i = Len(p) \/ IsSpace(p[i]) \/ IsSpace(p[i + 1])
        /\ CaseVariant(SubSeq(p, 1, i) \o <<" ">> \o SubSeq(p, i + 1, Len(p)), q)

\* p and q differ only in letter case and in the amount of whitespace.
SameQuestion(p, q) == CaseVariant(p, q) \/ MoreSpace(p, q) \/ MoreSpace(q, p)

C10_AsStated ==
    pushed.n > 0 =>
        HANDOFF_FILE =
            IF pushed.before.exists /\ pushed.before.valid
            THEN File(TRUE, TRUE, Append(pushed.before.arr, pushed.ticket))
            ELSE File(TRUE, TRUE, <<pushed.ticket>>)

\* ------------------------------------------------------------- C11
\* The records of a sequence.
Records(arr) == {arr[k] : k \in DOMAIN arr}

\* Task n executes the write half of push_ticket in this step.
Writes(n) ==
    /\ n \in DOMAIN tasks
    /\ tasks[n].pc = "write"
    /\ n \in DOMAIN tasks'
    /\ tasks'[n].pc = "confirm"

\* C11: the write half of a push_ticket call replaces the file by the records
\* the call read followed by its own record, whatever the file holds by then;
\* so a record of the file is lost exactly when the file changed between the
\* read and the write of the call, that is, when two calls overlap.
C11_LostUpdate ==
    [][\A n \in DOMAIN tasks :
        Writes(n) =>
            /\ HANDOFF_FILE' = File(TRUE, TRUE, Append(tasks[n].arr, tasks[n].ticket))
            /\ (Records(ReadArr(HANDOFF_FILE)) \ Records(HANDOFF_FILE'.arr) # {})
                    <=> tasks[n].arr # ReadArr(HANDOFF_FILE)]_vars

\* Two push_ticket calls have completed and the file holds one record.
C11_Witness ==
    /\ tasks = <<>>
    /\ Len(TICKETS) = 2
    /\ HANDOFF_FILE.exists
    /\ Len(HANDOFF_FILE.arr) = 1

\* ------------------------------------------------------------- C17, C18
\* C17: a text with at least one letter in the Arabic range is detected as
\* "ar", whatever other scripts, keywords, accents or phone number come with it.
C17_ArabicFirst ==
    (ret # "" /\ \E i \in DOMAIN arg.text : WordInfo(arg.text[i]).script = "ar")
        => ret = "ar"

\* An Arabic word next to an English keyword, sent from a Mexican number.
C17_Witness ==
    /\ ret = "ar"
    /\ arg.text = <<"price", "marhaban(ar)">>
    /\ arg.phone = <<"5", "2", "1">>

\* The order of the rules as stated: script, then accents, then keywords,
\* then English.
StatedOrder(text) ==
    IF detect_lang_from_script(text) # "None" THEN detect_lang_from_script(text)
    ELSE IF detect_lang_latin(text) # "None" THEN detect_lang_latin(text)
    ELSE IF detect_lang_keywords(text) # "None" THEN detect_lang_keywords(text)
    ELSE "en"

\* C18 as stated: without a phone number, detect_lang answers what the rules
\* give in the order script, accents, keywords, English default; a text with
\* a Spanish accent is "es" even next to a keyword of another language.
C18_AsStated ==
    (ret # "" /\ arg.phone = <<>>) => ret = StatedOrder(arg.text)

\* ------------------------------------------------------------- C12
\* C12 as stated: when the provider call fails, the caller of the reply
\* generator gets the apology string and no error; on POST /chat the answer
\* is then a 200 that carries the apology.
C12_AsStated ==
    (resp.op = "chat" /\ resp.provider = "fail")
        => resp.status = 200 /\ resp.body = "apology"

\* ------------------------------------------------------------- C19
\* C19 as stated: GET /webhook answers 200 with hub.challenge as body whenever
\* hub.verify_token is the configured token, and 403 without the challenge
\* when it is not.
C19_AsStated ==
    resp.op = "verify" =>
        IF resp.req[2] = META_VERIFY_TOKEN
        THEN resp.status = 200 /\ resp.body = resp.req[3]
        ELSE resp.status = 403 /\ resp.body = "forbidden"

\* C19: GET /webhook answers 200 with hub.challenge as body whenever hub.mode is
\* "subscribe", hub.verify_token is the configured token and hub.challenge is
\* not empty; in every other case, and so whenever the token differs, it
\* answers 403 with the body "forbidden" whatever the challenge is.
C19_Verify ==
    resp.op = "verify" =>
        IF resp.req[1] = "subscribe" /\ resp.req[2] = META_VERIFY_TOKEN
           /\ resp.req[3] # ""
        THEN resp.status = 200 /\ resp.body = resp.req[3]
        ELSE resp.status = 403 /\ resp.body = "forbidden"

\* A subscription with the configured token got its challenge back.
C19_Witness ==
    /\ resp.op = "verify"
    /\ resp.req = <<"subscribe", META_VERIFY_TOKEN, "c1">>
    /\ resp.status = 200
    /\ resp.body = "c1"

\* ------------------------------------------------------------- C20
\* C20: the handling of a text message "Hola" from a sender that is not
\* waiting for hand-off sends the button menu, once, and nothing else, makes
\* no completion call and creates no ticket.
C20_Greeting ==
    (/\ last.op = "handler"
     /\ last.msg.mtype = "text"
     /\ last.msg.wf
     /\ last.msg.body = "Hola"
     /\ ~last.pend)
        => /\ last.sends = <<Send(last.msg.from, "menu")>>
           /\ trace.completion = "none"
           /\ last.tickets = 0

\* "Hola" was answered with the menu.
C20_Witness ==
    /\ last.op = "handler"
    /\ last.msg.body = "Hola"
    /\ ~last.pend
    /\ last.status = "menu"
    /\ Len(last.sends) = 1

\* ------------------------------------------------------------- C13
\* The handling that completed last is that of a media message with an id.
MediaHandled ==
    /\ last.op = "handler"
    /\ last.msg.mtype \in MediaTypes
    /\ last.msg.media

\* The texts that carry a generated reply, and the notices of a failure.
GeneratedReplies == {"image_analysis", "summary", "audio_reply"}
FailureNotices ==
    {"image_failed", "image_unanalyzed", "document_failed", "pdf_unreadable",
     "document_not_pdf", "audio_failed", "audio_untranscribed"}

\* C13 as stated: the handling of a media message with an id never raises and
\* sends exactly one text to the sender, the generated reply or a notice that
\* the media could not be processed, whichever step fails.
C13_AsStated ==
    MediaHandled =>
        /\ ~last.raised
        /\ Len(last.sends) = 1
        /\ last.sends[1].to = last.msg.from
        /\ last.sends[1].kind \in GeneratedReplies \cup FailureNotices

\* ------------------------------------------------------------- C14
\* C14: no file under the media directory ever holds more than
\* MAX_MEDIA_BYTES bytes and no download in progress has received more; a
\* download whose received bytes exceed MAX_MEDIA_BYTES ends at that chunk
\* with the error, and its destination path no longer exists.
C14_SizeCeiling ==
    [][/\ \A p \in DOMAIN disk' : disk'[p].size <= MAX_MEDIA_BYTES
       /\ \A n \in DOMAIN tasks' : tasks'[n].total <= MAX_MEDIA_BYTES
       /\ (HandlerDone /\ trace'.received > MAX_MEDIA_BYTES)
            => /\ last'.status = "too_large"
               /\ trace'.file[1] \notin DOMAIN disk']_vars

\* A download was aborted one byte over the limit while another file holds
\* exactly MAX_MEDIA_BYTES bytes.
C14_Witness ==
    /\ last.status = "too_large"
    /\ trace.received = MAX_MEDIA_BYTES + 1
    /\ trace.file[1] \notin DOMAIN disk
    /\ \E p \in DOMAIN disk : disk[p].size = MAX_MEDIA_BYTES

\* ------------------------------------------------------------- C15
\* C15 as stated: once the handling of a media message has finished, the
\* temporary file it downloaded is no longer on disk.
C15_AsStated ==
    (MediaHandled /\ trace.file # <<>>)
        => ~(/\ trace.file[1] \in DOMAIN disk
             /\ disk[trace.file[1]].ino = trace.file[2])

\* ------------------------------------------------------------- C16
\* C16: for an audio message whose file was downloaded, the first
\* transcription attempt uses the primary model; the secondary model is tried
\* exactly when the primary attempt failed, and once; there are never more than
\* two attempts; when both fail the sender gets the apology and no
\* completion call is made.
C16_TranscriptionRetry ==
    (MediaHandled /\ last.msg.mtype = "audio" /\ trace.stt # <<>>) =>
        LET a == trace.stt
        IN  /\ Len(a) <= 2
            /\ a[1].model = "whisper-1"
            /\ (Len(a) = 2) <=> (a[1].result = "fail")
            /\ Len(a) = 2 => a[2].model = "gpt-4o-mini-transcribe"
            /\ (Len(a) = 2 /\ a[2].result = "fail")
                => /\ last.sends = <<Send(last.msg.from, "audio_untranscribed")>>
                   /\ trace.completion = "none"

\* Both models failed on an audio message.
C16_Witness ==
    /\ MediaHandled
    /\ last.msg.mtype = "audio"
    /\ Len(trace.stt) = 2
    /\ trace.stt[2].result = "fail"
    /\ last.sends[1].kind = "audio_untranscribed"

\* ------------------------------------------------------------- C21
\* The kinds of send that answer a text by a fixed rule or by the reply
\* generator.
RuleReplies == {"menu", "list", "tiempos", "human_prompt", "answer", "apology"}

\* C21: the handling of a well-formed text message whose sender is in
\* PENDING_HUMAN when the handler tests it (main.py:654) is a hand-off
\* completion, whatever the body is, a menu keyword or a 'talk to human'
\* trigger included: push_ticket is called once with the body as the
\* message of the ticket, the confirmation is sent to the sender, the sender
\* leaves PENDING_HUMAN, no menu, list or fixed text is sent and no
\* completion call is made.
C21_HandoffPriority ==
    [][(HandlerDone /\ last'.msg.mtype = "text" /\ last'.msg.wf /\ last'.pend)
       => LET m == last'.msg
          IN  /\ last'.status = "handoff"
              /\ last'.tickets = 1
              /\ \E k \in DOMAIN TICKETS' :
                    TICKETS'[k].from = m.from /\ TICKETS'[k].mensaje = m.body
              /\ last'.sends[Len(last'.sends)] = Send(m.from, "ticket_ok")
              /\ \A k \in DOMAIN last'.sends : last'.sends[k].kind \notin RuleReplies
              /\ trace'.completion = "none"
              /\ m.from \notin PENDING_HUMAN']_vars

\* The trigger text "Humano" of a sender in waiting_handoff became the
\* message of a ticket, and the greeting "Hola" of the same cycle another.
C21_Witness ==
    /\ last.op = "handler"
    /\ last.status = "handoff"
    /\ last.msg.body = "Humano"
    /\ last.pend
    /\ "s1" \notin PENDING_HUMAN
    /\ \E k \in DOMAIN TICKETS : TICKETS[k].mensaje = "Hola"
    /\ \E k \in DOMAIN TICKETS : TICKETS[k].mensaje = "Humano"

\* ------------------------------------------------------------- C22
\* A POST /webhook request that carries a message: is_duplicate is called.
DedupCall == WebhookStep /\ last'.kind = "message"

\* The id of the message was recorded more than SEEN_TTL ago and not since.
RecordedLongAgo(m) ==
    /\ m.id # ""
    /\ recorded[m.id].t >= 0
    /\ now - recorded[m.id].t > SEEN_TTL

\* After the call the de-dup map holds no id recorded more than SEEN_TTL
\* earlier.
NoOldIds == \A k \in DOMAIN SEEN_MSG' : now - SEEN_MSG'[k] <= SEEN_TTL

\* A message with an empty id is not answered as a duplicate and is not
\* recorded.
EmptyIdUnrecorded ==
    /\ "" \notin DOMAIN SEEN_MSG'
    /\ last'.msg.id = "" => last'.status # "dup_ok"

\* C22 as stated: after every call of is_duplicate the de-dup map holds no id
\* recorded more than SEEN_TTL earlier; a message id delivered again more
\* than SEEN_TTL after it was recorded is handed to the handler a second
\* time; an empty id is never a duplicate and never recorded.
C22_AsStated ==
    [][DedupCall =>
        /\ NoOldIds
        /\ RecordedLongAgo(last'.msg) => last'.status = "queued"
        /\ EmptyIdUnrecorded]_vars

\* C22 (amended): after every call of is_duplicate the de-dup map holds no id
\* recorded more than SEEN_TTL earlier; a message id delivered again more
\* than SEEN_TTL after it was last recorded is not a duplicate: it is
\* recorded anew and goes on to the rate-limit check, which queues it when
\* the sender has fewer than MAX_MSGS_PER_WINDOW accepted messages in the
\* last WINDOW seconds and answers rate_limited otherwise; an empty id is
\* never a duplicate and never recorded.
C22_Retention ==
    [][DedupCall =>
        /\ NoOldIds
        /\ RecordedLongAgo(last'.msg) =>
            /\ last'.status # "dup_ok"
            /\ SEEN_MSG'[last'.msg.id] = now
            /\ IF RecentAccepted(last'.msg.from) < MAX_MSGS_PER_WINDOW
               THEN /\ last'.status = "queued"
                    /\ Len(queuedAt'[last'.msg.id]) = Len(queuedAt[last'.msg.id]) + 1
               ELSE /\ last'.status = "rate_limited"
                    /\ UNCHANGED <<tasks, queuedAt>>
        /\ EmptyIdUnrecorded]_vars

\* Message m1 was handed to the handler at time 0 and again one second after
\* the retention period.
C22_Witness ==
    /\ last.status = "queued"
    /\ last.msg.id = "m1"
    /\ queuedAt["m1"] = <<0, SEEN_TTL + 1>>
    /\ SEEN_MSG = ("m1" :> SEEN_TTL + 1)

\* ------------------------------------------------------------- C23
\* The id of the message was last recorded by a request that the rate
\* limiter rejected, at most SEEN_TTL ago.
LimitedRecently(m) ==
    /\ m.id # ""
    /\ recorded[m.id].status = "rate_limited"
    /\ now - recorded[m.id].t <= SEEN_TTL

HandlerStep(n) ==
    /\ nreq' = nreq
    /\ n \in DOMAIN tasks
    /\ (n \notin DOMAIN tasks' \/ tasks'[n] # tasks[n])

\* C24: no step of the handling of a message that is no text (image,
\* document, audio, button, list reply, btn_cotizar, btn_tiempos, btn_humano,
\* unsupported type) whose sender is in PENDING_HUMAN takes the sender out of
\* PENDING_HUMAN, calls push_ticket or writes the ticket file; and a sender
\* leaves PENDING_HUMAN only at the end of the hand-off completion of a text
\* message of that sender.
C24_NonTextKeepsPending ==
    [][/\ \A n \in DOMAIN tasks :
            (/\ HandlerStep(n)
             /\ tasks[n].msg.mtype # "text"
             /\ tasks[n].msg.from \in PENDING_HUMAN)
                => /\ tasks[n].msg.from \in PENDING_HUMAN'
                   /\ UNCHANGED <<TICKETS, HANDOFF_FILE, cycle>>
                   /\ n \notin DOMAIN tasks' => last'.tickets = 0
       /\ \A s \in PENDING_HUMAN \ PENDING_HUMAN' :
            /\ HandlerDone
            /\ last'.msg.mtype = "text"
            /\ last'.msg.from = s
            /\ last'.status = "handoff"]_vars

\* An image of a sender in waiting_handoff was downloaded and analysed; the
\* sender is still waiting and has no ticket.
C24_Witness ==
    /\ last.op = "handler"
    /\ last.msg.mtype = "image"
    /\ last.status = "image"
    /\ last.pend
    /\ cycle["s1"] = 1
    /\ "s1" \in PENDING_HUMAN
    /\ TICKETS = <<>>
    /\ ~HANDOFF_FILE.exists

\* ------------------------------------------------------------- C25
\* A POST /chat request arrives: main.py:544-548 run.
ChatArrives == Len(chats') = Len(chats) + 1

\* The body of the request that arrives.
Arriving ==
    IF chats'[Len(chats')] = Answered THEN resp'.req[1]
    ELSE chats'[Len(chats')].pregunta

\* The cache key of body p; every question of the model is detected as "en".
KeyOf(p) == _key(sanitize_text(p), <<"e", "n">>)

\* The cache holds an entry for key k that has not expired.
Unexpired(k) == k \in DOMAIN cache /\ cache[k].exp >= now

\* An entry of the cache is written: added or replaced.
CacheWritten == \E k \in DOMAIN cache' : k \notin DOMAIN cache \/ cache'[k] # cache[k]

\* Request n goes from position a to position b.
Moves(n, a, b) == chats[n].pc = a /\ chats'[n].pc = b

\* The provider call of request n fails.
CallFails(n) == Moves(n, "call", "done")

\* The requests between their HIST.append and their trim.
Untrimmed == {n \in DOMAIN chats' : chats'[n].pc = "trim"}

\* The parts of C25 that hold as stated: a request with a non-blank question
\* whose key has an unexpired entry is answered 200 with the cached value on
\* arrival, and never reaches the provider call, the cache write or the
\* append; without such an entry it goes on to the provider call.  The cache
\* is written only when a provider call returns its content, with that
\* content; HIST gets an entry only from a request whose provider call
\* succeeded, and otherwise changes only by a trim to its last MAX_HIST
\* entries; a failed provider call answers 500 and changes neither.
ChatFrame ==
    /\ (ChatArrives /\ sanitize_text(Arriving) # <<>>) =>
            IF Unexpired(KeyOf(Arriving))
            THEN /\ resp' = ChatAnswer(Len(chats'), Arriving, 200,
                                       cache[KeyOf(Arriving)].val, TRUE, "none")
                 /\ chats'[Len(chats')] = Answered
                 /\ UNCHANGED <<cache, HIST>>
            ELSE /\ chats'[Len(chats')].pc = "call"
                 /\ UNCHANGED <<resp, HIST>>
                 /\ ~CacheWritten
    /\ CacheWritten =>
            \E n \in DOMAIN chats :
                /\ Moves(n, "call", "append")
                /\ chats'[n].provider = "ok"
                /\ cache' = CacheAfterSave(cache, _key(chats[n].q, chats[n].lang),
                                           chats'[n].a, now)
    /\ HIST' # HIST =>
            \/ \E n \in DOMAIN chats :
                    /\ Moves(n, "append", "trim")
                    /\ chats[n].provider = "ok"
                    /\ HIST' = Append(HIST, [t |-> now, pregunta |-> chats[n].q,
                                             respuesta |-> chats[n].a])
            \/ \E n \in DOMAIN chats :
                    /\ Moves(n, "trim", "done")
                    /\ Len(HIST') = MAX_HIST
                    /\ HIST' = SubSeq(HIST, Len(HIST) - MAX_HIST + 1, Len(HIST))
    /\ \A n \in DOMAIN chats :
            CallFails(n) => /\ resp'.status = 500
                            /\ resp'.provider = "fail"
                            /\ UNCHANGED <<cache, HIST>>

\* C25 as stated: the parts above, and HIST never holds more than MAX_HIST
\* entries.
C25_AsStated == [][ChatFrame /\ Len(HIST') <= MAX_HIST]_vars

\* C25 (amended): the parts above, and HIST holds at most MAX_HIST entries
\* plus one for every request that has appended its entry (main.py:551) and
\* not yet trimmed (main.py:552), so at most MAX_HIST whenever no request is
\* between the two statements.
C25_ChatCaching ==
    [][ChatFrame /\ Len(HIST') <= MAX_HIST + Cardinality(Untrimmed)]_vars

\* With a full history, one request was answered by the provider and
\* replaced the oldest entry, and the next got that answer from the cache
\* CACHE_TTL seconds later.
C25_Witness ==
    /\ resp.op = "chat"
    /\ resp.n = 2
    /\ resp.status = 200
    /\ resp.cached
    /\ resp.body = "r2"
    /\ now = CACHE_TTL
    /\ Len(HIST) = MAX_HIST
    /\ HIST[MAX_HIST].respuesta = "r2"
    /\ HIST[MAX_HIST].t = 0
    /\ \A n \in DOMAIN chats : chats[n] = Answered


\* ------------------------------------------------------------------ C26
\* The call of simple_chunk has returned.
ChunkReturned == chunker.pc = "returned"

\* The call is in its loop and the iteration about to run changes neither i
\* nor chunks.
ChunkSpins ==
    /\ chunker.pc = "loop"
    /\ chunker.i < Len(chunker.text)
    /\ IterationOf(chunker, arg.max_len) = chunker

\* C26, first half: every call of simple_chunk returns.
C26_Terminates == <>ChunkReturned

\* C26, second half: the list a call returns is not empty and none of its
\* chunks is longer than max_len.
C26_ChunksFit ==
    [](ChunkReturned =>
          /\ chunker.out # <<>>
          /\ \A k \in DOMAIN chunker.out : Len(chunker.out[k]) <= arg.max_len)

\* C26 as stated: simple_chunk terminates for every text and every max_len
\* with the default overlap of 150, and returns a non-empty list of chunks
\* each at most max_len characters long; in particular it terminates when the
\* text is longer than max_len.
C26_AsStated == C26_Terminates /\ C26_ChunksFit

\* What the code does with a text longer than the default max_len: the last
\* window ends at the end of the text, i goes back to len(text) - 150 and the
\* loop test holds for ever.
C26_NeverSpins == ~(ChunkSpins /\ arg.max_len = MAX_CHUNK_CHARS)

\* What the code does with a text that is longer than max_len and shorter than
\* the overlap: no chunk reaches MIN_CHUNK_CHARS and the text is returned whole.
C26_NeverWhole ==
    ~(ChunkReturned /\ Len(chunker.text) > arg.max_len /\ chunker.out = <<chunker.text>>)

====
